---------------------------- MODULE Spec2Model ----------------------------
(***************************************************************************)
(* Model of chromium_manage (src/chromium_manager.py): the process         *)
(* lifecycle manager (start / stop / reconciliation over the               *)
(* running_instances table), the download thread and the archive           *)
(* installer, together with the part of the operating system they act on.  *)
(***************************************************************************)
EXTENDS Integers, Sequences, FiniteSets, TLC

(***************************************************************************)
(* Bounds of the model.                                                    *)
(***************************************************************************)
MaxPid == 2

\* chunks one response stream delivers at most, the largest chunk and the
\* largest content-length, in units of a byte block
MaxChunks == 2

MaxChunkLen == 2

MaxLength == 3

\* instances the registry holds at most, and the largest number a generated
\* default name carries
MaxInstances == 2

MaxNumber == 3

\* assets the release feed holds at most, over all its releases
MaxAssets == 2

Pids == 1..MaxPid

\* The instance registry used by the lifecycle specification: three
\* instances, two on an installed version and one on a version that is not
\* installed.
Names == {"a", "b", "c"}

Tags == {"default", "v1"}

\* Owner of an OS process that the manager did not spawn.
Other == "other"

NoPath == [tag |-> "none", rel |-> <<>>]

VARIABLES
    running_instances,  \* ChromiumManager.running_instances: name -> pid
    instances,          \* ChromiumManager.config['instances']: name -> record
    config_versions,    \* ChromiumManager.config['versions']: tag -> path
    fs,                 \* platform_dir/<tag>: [exists, files]
    is_windows,         \* ChromiumManager.is_windows
    os,                 \* the host's process table: pid -> [st, owner, denied]
    lastOp,             \* the last manager operation and what it reported
    dl_pc,              \* DownloadThread.run: where the thread is
    is_cancelled,       \* DownloadThread._is_cancelled
    file_exists,        \* os.path.exists(DownloadThread.filepath)
    total_size,         \* total_size of run (0: no content-length)
    downloaded,         \* downloaded of run
    received,           \* chunks the stream has delivered so far
    events,             \* the signals the thread has emitted, in order
    cancel_at,          \* where the thread was when cancel() was called
    pending,            \* the downloaded archive awaiting extraction
    installs,           \* tag -> the last successful install of the tag
    lastInstall,        \* the last run of extract_file and its result
    instance_list,      \* ChromiumManager.config['instances'] as the list the
                        \* registry operations and load_config work on
    is_macos,           \* ChromiumManager.is_macos
    feed,               \* the releases the feed answers with
    available_versions, \* ChromiumManager.available_versions
    lastFetch,          \* the last fetch_available_versions: the feed's answer
    lastResolve,        \* the last catalogue query and what it returned
    document,           \* the persisted document (config.yaml)
    lastLoad,           \* what the last load_config found and did
    lastBatch,          \* the last batch operation or shutdown and its report
    launch,             \* the argument vectors built for an instance
    dirs,               \* the user data directories that exist
    pc,                 \* where the GUI thread is: in the event loop, in a
                        \* modal dialog, or at a statement of a handler
    frame,              \* the handler the GUI thread runs and its locals
    trace,              \* what the running Stop has done to its process
    readers,            \* pids whose stderr a read_errors thread drains
    lastDelete,         \* the delete_instance that ran last, if no other
                        \* registry operation ran after it
    lastAccept          \* the add_instance or edit_instance that ran last:
                        \* what its dialog did

dlVars == <<dl_pc, is_cancelled, file_exists, total_size, downloaded, received, events, cancel_at>>

instVars == <<pending, installs, lastInstall>>


feedVars == <<is_macos, feed, available_versions, lastFetch>>


loadVars == <<document, lastLoad>>



profileVars == <<dirs, lastDelete, lastAccept>>

guiVars == <<pc, frame, trace, readers>>

extVars == <<instance_list, profileVars, feedVars, lastResolve, loadVars, lastBatch, launch, guiVars>>

vars == <<running_instances, instances, config_versions, fs, is_windows, os, lastOp,
          dlVars, instVars, extVars>>

(***************************************************************************)
(* Helpers on finite maps.                                                 *)
(***************************************************************************)
MapRemove(m, k) == [x \in (DOMAIN m) \ {k} |-> m[x]]

MapPut(m, k, v) == [x \in (DOMAIN m) \cup {k} |-> IF x = k THEN v ELSE m[x]]

EmptyMap == [x \in {} |-> 0]

FreeSlot == [st |-> "free", owner |-> "none", denied |-> FALSE]

(***************************************************************************)
(* Version catalogue: get_chromium_path and update_version_config.         *)
(***************************************************************************)
\* os.path.exists(path) for a path under platform_dir
PathExists(f, path) ==
    /\ path # NoPath
    /\ f[path.tag].exists
    /\ \E x \in f[path.tag].files : x.rel = path.rel

\* the ordered candidate list of get_chromium_path
possible_paths(win, version) ==
    IF win
    THEN << [tag |-> version, rel |-> <<"chrome.exe">>],
            [tag |-> version, rel |-> <<"Chromium", "chrome.exe">>],
            [tag |-> version, rel |-> <<"chrome-win", "chrome.exe">>] >>
    ELSE << [tag |-> version, rel |-> <<"Chromium.app", "Contents", "MacOS", "Chromium">>],
            [tag |-> version, rel |-> <<"Chromium", "Contents", "MacOS", "Chromium">>] >>

\* (the last existing path of a candidate sequence)
RECURSIVE LastExisting(_, _)
LastExisting(f, paths) ==
    IF paths = <<>> THEN NoPath
    ELSE IF PathExists(f, paths[Len(paths)]) THEN paths[Len(paths)]
    ELSE LastExisting(f, SubSeq(paths, 1, Len(paths) - 1))

\* first existing path of a candidate sequence, NoPath when there is none
RECURSIVE FirstExisting(_, _)
FirstExisting(f, paths) ==
    IF paths = <<>> THEN NoPath
    ELSE IF PathExists(f, Head(paths)) THEN Head(paths)
    ELSE FirstExisting(f, Tail(paths))

update_version_config_skipped(cv, version, path) == cv

\* self.config['versions'][version] = {'path': path, ...}
update_version_config(cv, version, path) == MapPut(cv, version, path)

\* get_chromium_path(version): the path returned (NoPath for None) and the
\* version records it leaves behind
get_chromium_path(cv, f, win, version) ==
    IF version \in DOMAIN cv /\ cv[version] # NoPath /\ PathExists(f, cv[version])
    THEN [path |-> cv[version], versions |-> cv]
    ELSE IF ~ f[version].exists
    THEN [path |-> NoPath, versions |-> cv]
    ELSE LET found == FirstExisting(f, possible_paths(win, version))
         IN  IF found # NoPath
             THEN [path |-> found, versions |-> update_version_config(cv, version, found)]
             ELSE [path |-> NoPath, versions |-> cv]

\* (has_version without its update of the version records)
has_version_readonly(cv, f, win, version) ==
    [found |-> \/ (version \in DOMAIN cv /\ PathExists(f, cv[version]))
               \/ FirstExisting(f, possible_paths(win, version)) # NoPath,
     versions |-> cv]

\* has_version(version): the answer and the version records it leaves behind
has_version(cv, f, win, version) ==
    LET version_config == IF version \in DOMAIN cv THEN cv[version] ELSE NoPath
    IN  IF version_config # NoPath /\ PathExists(f, version_config)
        THEN [found |-> TRUE, versions |-> cv]
        \* (the empty version: platform_dir itself holds no executable)
        ELSE IF version = "" \/ ~ f[version].exists
        THEN [found |-> FALSE, versions |-> cv]
        ELSE LET hit == FirstExisting(f, possible_paths(win, version))
             IN  IF hit # NoPath
                 THEN [found |-> TRUE, versions |-> update_version_config(cv, version, hit)]
                 ELSE [found |-> FALSE, versions |-> cv]

(***************************************************************************)
(* The operating system: processes exit, are reaped, and pids are reused.  *)
(***************************************************************************)
\* a process exits on its own (crash, external kill, user closes the
\* browser); it stays in the process table as a zombie until reaped
ProcExit(p) ==
    /\ os[p].st = "alive"
    /\ os[p].owner # Other
    /\ os' = [os EXCEPT ![p].st = "zombie"]
    /\ UNCHANGED <<running_instances, instances, config_versions, fs, is_windows, lastOp, dlVars, instVars, extVars>>

\* the exit status of a dead child is collected (the Popen object is
\* finalised, or the platform has no zombie state): the pid becomes free
Reap(p) ==
    /\ os[p].st = "zombie"
    /\ os' = [os EXCEPT ![p] = FreeSlot]
    /\ UNCHANGED <<running_instances, instances, config_versions, fs, is_windows, lastOp, dlVars, instVars, extVars>>

\* the OS gives a free pid to a process the manager did not spawn; it may
\* belong to another user (signals and status probes are denied)
PidReuse(p, d) ==
    /\ os[p].st = "free"
    /\ os' = [os EXCEPT ![p] = [st |-> "alive", owner |-> Other, denied |-> d]]
    /\ UNCHANGED <<running_instances, instances, config_versions, fs, is_windows, lastOp, dlVars, instVars, extVars>>

\* an unrelated process exits and is reaped by its own parent
OtherExit(p) ==
    /\ os[p].st = "alive"
    /\ os[p].owner = Other
    /\ os' = [os EXCEPT ![p] = FreeSlot]
    /\ UNCHANGED <<running_instances, instances, config_versions, fs, is_windows, lastOp, dlVars, instVars, extVars>>

(***************************************************************************)
(* Process lifecycle manager.                                              *)
(***************************************************************************)
\* the record of a manager operation: what it was asked, what it reported,
\* the signals it sent, the entries it removed, and three facts about it:
\* whether the instance had an entry before, whether the table, the registry
\* or the OS processes changed, and whether the pid of the entry is free
\* when the operation returns
Op(op, name, report, sigs, removed, tracked, changed, gone) ==
    [op |-> op, name |-> name, report |-> report, sigs |-> sigs, removed |-> removed,
     tracked |-> tracked, changed |-> changed, gone |-> gone]

Sig(p, s) == [pid |-> p, owner |-> os[p].owner, sig |-> s]

\* what subprocess.Popen can do: succeed with a pid of the OS's choice, or
\* fail (the pid is then of no account)
SpawnChoices ==
    {<<"ok", p>> : p \in Pids} \cup {<<oc, 1>> : oc \in {"FileNotFoundError", "PermissionError", "OSError"}}

\* the executable start_instance resolves for an instance
resolve(name) ==
    get_chromium_path(config_versions, fs, is_windows, instances[name].chromium_version)

\* start_instance after its already-running check: resolution, then
\* subprocess.Popen, whose result is oc; p is the pid the OS would give
start_path_unchecked(name, oc, p) ==
    IF resolve(name).path = NoPath THEN "unresolved"
    ELSE IF oc = "ok" /\ os[p].st = "free" THEN "started"
    ELSE IF oc = "ok" THEN "OSError"
    ELSE oc

start_path_nocheck(name, oc, p) == start_path_unchecked(name, oc, p)

\* the path start_instance takes: its report
start_path(name, oc, p) ==
    IF name \in DOMAIN running_instances THEN "rejected_running"
    ELSE start_path_unchecked(name, oc, p)

start_inserts_before_spawn(path) == path \notin {"rejected_running", "unresolved"}

\* the paths on which self.running_instances[instance_name] = process.pid runs
start_inserts(path) == path = "started"

\* start_instance(instance)
start_instance(name, oc, p) ==
    LET path == start_path(name, oc, p)
    IN  /\ running_instances' =
              IF start_inserts(path) THEN MapPut(running_instances, name, p)
              ELSE running_instances
        /\ os' = IF path = "started"
                 THEN [os EXCEPT ![p] = [st |-> "alive", owner |-> name, denied |-> FALSE]]
                 ELSE os
        /\ config_versions' =
              IF path = "rejected_running" THEN config_versions
              ELSE resolve(name).versions
        /\ UNCHANGED <<instances, fs, is_windows, dlVars, instVars, extVars>>
        /\ lastOp' = Op("start", name, path, <<>>, {},
                        name \in DOMAIN running_instances,
                        running_instances' # running_instances \/ os' # os,
                        FALSE)

\* start_selected_instance with exactly one instance selected
start_selected_instance(name, oc, p) ==
    IF name \in DOMAIN running_instances
    THEN /\ lastOp' = Op("start", name, "rejected_running", <<>>, {}, TRUE, FALSE, FALSE)
         /\ UNCHANGED <<running_instances, instances, config_versions, fs, is_windows, os, dlVars, instVars, extVars>>
    ELSE start_instance(name, oc, p)

\* what the target does after process.terminate()
TermResponses == {"exits_on_term", "exits_on_kill", "survives"}

\* stop_instance after its not-running check; resp is what the signalled
\* process does
stop_path_unchecked(name, resp) ==
    IF name \notin DOMAIN running_instances THEN "error"    \* KeyError
    ELSE LET pid == running_instances[name]
         IN  IF os[pid].st = "free" THEN "cleaned"          \* NoSuchProcess
             ELSE IF os[pid].denied THEN "AccessDenied"     \* terminate() denied
             ELSE IF os[pid].st = "zombie" \/ resp = "exits_on_term"
             THEN "stopped"                                 \* wait(timeout=5) returns
             ELSE IF resp = "exits_on_kill"
             THEN "stopped_forced"                          \* kill(), wait(timeout=2) returns
             ELSE "error"                                   \* second TimeoutExpired

stop_path_nocheck(name, resp) == stop_path_unchecked(name, resp)

\* the path stop_instance takes: its report
stop_path(name, resp) ==
    IF name \notin DOMAIN running_instances THEN "rejected_not_running"
    ELSE stop_path_unchecked(name, resp)

\* the signals stop_instance sends on a path
stop_signals(name, resp, path) ==
    IF name \notin DOMAIN running_instances THEN <<>>
    ELSE LET pid == running_instances[name]
         IN  IF path = "stopped" THEN <<Sig(pid, "TERM")>>
             ELSE IF path = "stopped_forced" \/ (path = "error" /\ os[pid].st = "alive")
             THEN <<Sig(pid, "TERM"), Sig(pid, "KILL")>>
             ELSE <<>>

stop_removes_on_error(path) == path # "rejected_not_running"

stop_removes_when_denied(path) ==
    path \in {"stopped", "stopped_forced", "cleaned", "AccessDenied"}

\* the paths on which del self.running_instances[instance_name] runs
stop_removes(path) == path \in {"stopped", "stopped_forced", "cleaned"}

\* stop_instance(instance)
stop_instance(name, resp) ==
    LET path == stop_path(name, resp)
        sigs == stop_signals(name, resp, path)
    IN  /\ running_instances' =
              IF stop_removes(path) THEN MapRemove(running_instances, name)
              ELSE running_instances
        /\ os' = IF path \in {"stopped", "stopped_forced"}
                 THEN [os EXCEPT ![running_instances[name]] = FreeSlot]
                 ELSE os
        /\ UNCHANGED <<instances, config_versions, fs, is_windows, dlVars, instVars, extVars>>
        /\ lastOp' = Op("stop", name, path, sigs,
                        IF stop_removes(path) THEN {name} ELSE {},
                        name \in DOMAIN running_instances,
                        running_instances' # running_instances \/ os' # os,
                        /\ name \in DOMAIN running_instances
                        /\ os'[running_instances[name]].st = "free")

\* stop_selected_instance with exactly one instance selected
stop_selected_instance(name, resp) ==
    IF name \notin DOMAIN running_instances
    THEN /\ lastOp' = Op("stop", name, "rejected_not_running", <<>>, {}, FALSE, FALSE, FALSE)
         /\ UNCHANGED <<running_instances, instances, config_versions, fs, is_windows, os, dlVars, instVars, extVars>>
    ELSE stop_instance(name, resp)

\* the liveness probe of update_process_status for one entry
is_dead(pid) ==
    \/ os[pid].st = "free"                          \* psutil.NoSuchProcess
    \/ (~ os[pid].denied /\ os[pid].st = "zombie")  \* STATUS_ZOMBIE

\* update_process_status(): one reconciliation pass
update_process_status ==
    LET dead_instances == {n \in DOMAIN running_instances : is_dead(running_instances[n])}
    IN  /\ running_instances' =
               [n \in (DOMAIN running_instances) \ dead_instances |-> running_instances[n]]
        /\ lastOp' = Op("reconcile", "-", "ok", <<>>, dead_instances,
                        FALSE, dead_instances # {}, FALSE)
        /\ UNCHANGED <<instances, config_versions, fs, is_windows, os, dlVars, instVars, extVars>>

(***************************************************************************)
(* The lifecycle specification.                                            *)
(***************************************************************************)
File(rel, src) == [rel |-> rel, src |-> src]

\* a version directory as an earlier run of the manager left it
InstalledFiles(win) ==
    IF win THEN {File(<<"chrome.exe">>, "old"), File(<<"chrome.dll">>, "old")}
    ELSE {File(<<"Chromium.app", "Contents", "MacOS", "Chromium">>, "old"),
          File(<<"Chromium.app", "Contents", "Info.plist">>, "old")}

\* the values of the variables that record an operation while none has run
\* yet, the document before the first save, and the GUI thread's frame in
\* the event loop
Idle ==
    [resolve |-> [op |-> "none", version |-> "none", path |-> NoPath, found |-> FALSE,
                  updated |-> FALSE],
     document |-> [kind |-> "missing"],
     load |-> [kind |-> "none", failed |-> FALSE, doc |-> [kind |-> "missing"],
               saved |-> FALSE],
     batch |-> [op |-> "none", selected |-> <<>>, was_running |-> {}, attempts |-> <<>>,
                success_count |-> 0, failed_instances |-> <<>>],
     launch |-> [instance |-> <<>>, path |-> "", site |-> "", cmd |-> <<>>, verify |-> <<>>],
     fetch |-> [result |-> "none", feed |-> <<>>],
     delete |-> [before |-> <<>>, dirs |-> {}, selected |-> {}, failed |-> {},
                 removed |-> {}, rejected |-> FALSE, save |-> "none"],
     accept |-> [op |-> "none", version |-> "none", why |-> "none", accepted |-> FALSE,
                 changed |-> FALSE, save |-> "none"],
     install |-> [tag |-> "none", archive |-> "none", ok |-> FALSE, path |-> NoPath,
                  prev |-> [archive |-> "none", path |-> NoPath], hadContents |-> FALSE,
                  cmds |-> <<>>, why |-> "none", record |-> NoPath],
     frame |-> [op |-> "none", name |-> "-", pid |-> 0]]

\* the parts of the manager a specification does not exercise
ExtIdle ==
    /\ instance_list = <<>>
    /\ dirs = {}
    /\ lastDelete = Idle.delete
    /\ lastAccept = Idle.accept
    /\ is_macos = ~ is_windows
    /\ feed = <<>>
    /\ available_versions = <<>>
    /\ lastFetch = Idle.fetch
    /\ lastResolve = Idle.resolve
    /\ document = Idle.document
    /\ lastLoad = Idle.load
    /\ lastBatch = Idle.batch
    /\ launch = Idle.launch
    /\ pc = "idle"
    /\ frame = Idle.frame
    /\ trace = <<>>
    /\ readers = {}

DlIdle ==
    /\ dl_pc = "idle"
    /\ is_cancelled = FALSE
    /\ file_exists = FALSE
    /\ total_size = 0
    /\ downloaded = 0
    /\ received = 0
    /\ events = <<>>
    /\ cancel_at = "none"

InstIdle ==
    /\ pending = "none"
    /\ installs = EmptyMap
    /\ lastInstall = Idle.install

Init ==
    /\ running_instances = EmptyMap
    /\ instances = [n \in Names |->
                      [chromium_version |-> IF n = "c" THEN "v1" ELSE "default"]]
    /\ config_versions = EmptyMap
    /\ is_windows \in BOOLEAN
    /\ fs = [t \in Tags |->
               IF t = "default"
               THEN [exists |-> TRUE, files |-> InstalledFiles(is_windows)]
               ELSE [exists |-> FALSE, files |-> {}]]
    /\ os = [p \in Pids |-> FreeSlot]
    /\ lastOp = Op("init", "-", "ok", <<>>, {}, FALSE, FALSE, FALSE)
    /\ DlIdle
    /\ InstIdle
    /\ ExtIdle

Next ==
    \/ \E n \in Names, c \in SpawnChoices : start_instance(n, c[1], c[2])
    \/ \E n \in Names, c \in SpawnChoices : start_selected_instance(n, c[1], c[2])
    \/ \E n \in Names, resp \in TermResponses : stop_instance(n, resp)
    \/ \E n \in Names, resp \in TermResponses : stop_selected_instance(n, resp)
    \/ update_process_status
    \/ \E p \in Pids : ProcExit(p)
    \/ \E p \in Pids : Reap(p)
    \/ \E p \in Pids, d \in BOOLEAN : PidReuse(p, d)
    \/ \E p \in Pids : OtherExit(p)

Spec == Init /\ [][Next]_vars

\* the status timer keeps firing: while there is again and again a dead
\* entry to remove, a reconciliation pass that removes one is run
FairSpec == Spec /\ SF_vars(update_process_status)

(***************************************************************************)
(* Download coordinator: DownloadThread.run and the dialog's start and     *)
(* cancel.                                                                 *)
(***************************************************************************)
Ev(k, v) == [k |-> k, v |-> v]

Finished(evs) == SelectSeq(evs, LAMBDA e : e.k = "finished")

\* the outcome the thread reported: the argument of its last finished signal
Outcome ==
    IF Finished(events) = <<>> THEN "none"
    ELSE Finished(events)[Len(Finished(events))].v

lifecycleVars == <<running_instances, instances, config_versions, fs, is_windows, os, lastOp>>

\* DownloadDialog.start_download: a new DownloadThread is created and started
start_download ==
    /\ dl_pc \in {"idle", "done"}
    /\ dl_pc' = "start"
    /\ is_cancelled' = FALSE
    /\ total_size' = 0
    /\ downloaded' = 0
    /\ received' = 0
    /\ events' = <<>>
    /\ cancel_at' = "none"
    /\ UNCHANGED <<file_exists, lifecycleVars, instVars, extVars>>

\* DownloadDialog.cancel_download while the thread is running: cancel(),
\* then wait() for the thread
cancel_download ==
    /\ dl_pc \in {"start", "loop"}
    /\ ~ is_cancelled
    /\ is_cancelled' = TRUE
    /\ cancel_at' = dl_pc
    /\ UNCHANGED <<dl_pc, file_exists, total_size, downloaded, received, events,
                   lifecycleVars, instVars, extVars>>


\* run, up to the open of the destination file: the request, the status
\* check, the content-length and open(filepath, 'wb')
run_connect(oc, len) ==
    /\ dl_pc = "start"
    /\ dl_pc' = IF oc = "ok" THEN "loop" ELSE "done"
    /\ total_size' = IF oc = "ok" THEN len ELSE total_size
    /\ file_exists' = IF oc = "ok" THEN TRUE ELSE file_exists
    /\ events' = events \o <<Ev("status", "start")>> \o
                   (IF oc = "ok" THEN <<>>
                    ELSE IF oc = "net" THEN <<Ev("finished", "net")>>
                    ELSE IF oc = "badlen" THEN <<Ev("finished", "other")>>
                    ELSE <<Ev("finished", "io")>>)
    /\ UNCHANGED <<is_cancelled, downloaded, received, cancel_at, lifecycleVars, instVars, extVars>>

cancel_branch_emits_first(rm_ok) ==
    IF rm_ok THEN <<Ev("finished", "cancelled")>>
    ELSE <<Ev("finished", "cancelled"), Ev("finished", "io")>>

\* the cancelled branch of the loop: os.remove, then finished.emit; a
\* failing remove raises OSError, which the IOError handler reports
cancel_branch(rm_ok) ==
    IF rm_ok THEN <<Ev("finished", "cancelled")>> ELSE <<Ev("finished", "io")>>

\* progress = int((downloaded / total_size) * 100)
progress(done, total) == (done * 100) \div total

\* one iteration of the loop over response.iter_content: a chunk of n blocks
\* has arrived; io_ok is whether the file operation of the iteration succeeds
run_chunk(n, io_ok) ==
    /\ dl_pc = "loop"
    /\ received < MaxChunks
    /\ received' = received + 1
    /\ IF is_cancelled
       THEN /\ file_exists' = ~ io_ok
            /\ events' = events \o cancel_branch(io_ok)
            /\ dl_pc' = "done"
            /\ UNCHANGED downloaded
       ELSE IF n = 0
       THEN UNCHANGED <<dl_pc, file_exists, downloaded, events>>
       ELSE IF ~ io_ok
       THEN /\ events' = events \o <<Ev("finished", "io")>>
            /\ dl_pc' = "done"
            /\ UNCHANGED <<file_exists, downloaded>>
       ELSE /\ downloaded' = downloaded + n
            /\ events' = IF total_size > 0
                         THEN events \o <<Ev("progress", progress(downloaded + n, total_size)),
                                          Ev("status",
                                             ToString(progress(downloaded + n, total_size))
                                             \o "%")>>
                         ELSE events
            /\ UNCHANGED <<dl_pc, file_exists>>
    /\ UNCHANGED <<is_cancelled, total_size, cancel_at, lifecycleVars, instVars, extVars>>

\* iter_content raises while the thread waits for the next chunk
run_neterr ==
    /\ dl_pc = "loop"
    /\ dl_pc' = "done"
    /\ events' = events \o <<Ev("finished", "net")>>
    /\ UNCHANGED <<is_cancelled, file_exists, total_size, downloaded, received, cancel_at,
                   lifecycleVars, instVars, extVars>>

run_end_outcome_first(io_ok) ==
    /\ dl_pc = "loop"
    /\ dl_pc' = "done"
    /\ events' = events \o (IF io_ok
                            THEN <<Ev("finished", "ok"), Ev("status", "done")>>
                            ELSE <<Ev("finished", "io")>>)
    /\ UNCHANGED <<is_cancelled, file_exists, total_size, downloaded, received, cancel_at,
                   lifecycleVars, instVars, extVars>>

\* the stream ends: the file is closed (io_ok) and the success is reported
run_end(io_ok) ==
    /\ dl_pc = "loop"
    /\ dl_pc' = "done"
    /\ events' = events \o (IF io_ok
                            THEN <<Ev("status", "done"), Ev("finished", "ok")>>
                            ELSE <<Ev("finished", "io")>>)
    /\ UNCHANGED <<is_cancelled, file_exists, total_size, downloaded, received, cancel_at,
                   lifecycleVars, instVars, extVars>>

InitDl ==
    /\ running_instances = EmptyMap
    /\ instances = [n \in Names |->
                      [chromium_version |-> IF n = "c" THEN "v1" ELSE "default"]]
    /\ config_versions = EmptyMap
    /\ is_windows \in BOOLEAN
    /\ fs = [t \in Tags |-> [exists |-> FALSE, files |-> {}]]
    /\ os = [p \in Pids |-> FreeSlot]
    /\ lastOp = Op("init", "-", "ok", <<>>, {}, FALSE, FALSE, FALSE)
    /\ DlIdle
    /\ InstIdle
    /\ ExtIdle

NextDl ==
    \/ start_download
    \/ cancel_download
    \/ \E oc \in {"ok", "net", "badlen", "ioerr"}, len \in 0..MaxLength : run_connect(oc, len)
    \/ \E n \in 0..MaxChunkLen, io_ok \in BOOLEAN : run_chunk(n, io_ok)
    \/ run_neterr
    \/ \E io_ok \in BOOLEAN : run_end(io_ok)

SpecDl == InitDl /\ [][NextDl]_vars

(***************************************************************************)
(* Archive installer: FileExtractor.extract_zip, FileExtractor.extract_dmg *)
(* and DownloadDialog.extract_file.                                        *)
(***************************************************************************)
ZipArchives == {"zipTop", "zipNested", "zipNoExe"}

DmgArchives == {"dmgA", "dmgB", "dmgNoExe", "dmgNoApp"}

\* the files of an archive, as paths relative to where they are unpacked:
\* the members of a zip, the Chromium.app bundle of a disk image
payload(a) ==
    CASE a = "zipTop"    -> {<<"chrome.exe">>, <<"chrome.dll">>}
      [] a = "zipNested" -> {<<"chrome-win", "chrome.exe">>, <<"chrome-win", "chrome.dll">>}
      [] a = "zipNoExe"  -> {<<"readme.txt">>}
      [] a = "dmgA"      -> {<<"Chromium.app", "Contents", "MacOS", "Chromium">>,
                             <<"Chromium.app", "Contents", "Info.plist">>}
      [] a = "dmgB"      -> {<<"Chromium.app", "Contents", "MacOS", "Chromium">>,
                             <<"Chromium.app", "Contents", "Frameworks", "lib">>}
      [] a = "dmgNoExe"  -> {<<"Chromium.app", "Contents", "Info.plist">>}
      [] OTHER           -> {}

FilesOf(a, rels) == {File(r, a) : r \in rels}

\* shutil.copy2 / copytree(dirs_exist_ok=True) of new files into a directory:
\* a file of the same path is overwritten, the others stay
CopyInto(old, new) == {x \in old : \A y \in new : y.rel # x.rel} \cup new

\* the candidate list extract_zip searches
chrome_paths(version) ==
    << [tag |-> version, rel |-> <<"chrome.exe">>],
       [tag |-> version, rel |-> <<"Chromium", "chrome.exe">>],
       [tag |-> version, rel |-> <<"chrome-win", "chrome.exe">>] >>

ExtractOutcomes == {"ok", "mkdirfail", "unpackfail", "copyfail"}

zip_version_dir_kept(old) == old

\* the version directory extract_zip copies into: removed if it exists and
\* created again
zip_version_dir(old) == {}

\* FileExtractor.extract_zip: the version directory and the version records
\* it leaves, and its result; oc is where it fails, sub what a failing copy
\* had copied
extract_zip(f, cv, tag, a, oc, sub) ==
    IF oc \in {"mkdirfail", "unpackfail"}
    THEN [fs |-> f, versions |-> cv, ok |-> FALSE, path |-> NoPath, cmds |-> <<>>, why |-> oc]
    ELSE LET copied == IF oc = "copyfail" THEN FilesOf(a, sub) ELSE FilesOf(a, payload(a))
             f2 == [f EXCEPT ![tag] =
                       [exists |-> TRUE,
                        files |-> CopyInto(zip_version_dir(f[tag].files), copied)]]
             found == FirstExisting(f2, chrome_paths(tag))
         IN  IF oc = "copyfail" \/ found = NoPath
             THEN [fs |-> f2, versions |-> cv, ok |-> FALSE, path |-> NoPath, cmds |-> <<>>,
                   why |-> IF oc = "copyfail" THEN oc ELSE "noexe"]
             ELSE [fs |-> f2, versions |-> update_version_config(cv, tag, found),
                   ok |-> TRUE, path |-> found, cmds |-> <<>>, why |-> "ok"]

\* shutil.rmtree(target_path): what is left of the version directory
without_bundle(old) == {x \in old : Head(x.rel) # "Chromium.app"}

dmg_finally_after_mount(why) == IF why = "unpackfail" THEN <<>> ELSE <<"detach">>

\* the finally clause of extract_dmg, entered however the inner try is left
\* (why): hdiutil detach
dmg_finally(why) == <<"detach">>

\* FileExtractor.extract_dmg; oc = "mkdirfail" is a failing os.makedirs
\* before the inner try, oc = "unpackfail" a failing hdiutil attach; cmds
\* are the hdiutil commands it runs
extract_dmg(f, cv, tag, a, oc, sub) ==
    LET f1 == [f EXCEPT ![tag].exists = TRUE]
        copied == IF oc = "copyfail" THEN FilesOf(a, sub) ELSE FilesOf(a, payload(a))
        f2 == [f1 EXCEPT ![tag].files = without_bundle(f[tag].files) \cup copied]
        exe == [tag |-> tag, rel |-> <<"Chromium.app", "Contents", "MacOS", "Chromium">>]
        why == IF oc \in {"mkdirfail", "unpackfail"} THEN oc
               ELSE IF payload(a) = {} THEN "noapp"
               ELSE IF oc = "copyfail" THEN oc
               ELSE IF ~ PathExists(f2, exe) THEN "noexe"
               ELSE "ok"
        cmds == IF why = "mkdirfail" THEN <<>> ELSE <<"attach">> \o dmg_finally(why)
    IN  IF why = "mkdirfail"
        THEN [fs |-> f, versions |-> cv, ok |-> FALSE, path |-> NoPath, cmds |-> cmds,
              why |-> why]
        ELSE IF why \in {"unpackfail", "noapp"}
        THEN [fs |-> f1, versions |-> cv, ok |-> FALSE, path |-> NoPath, cmds |-> cmds,
              why |-> why]
        ELSE IF why \in {"copyfail", "noexe"}
        THEN [fs |-> f2, versions |-> cv, ok |-> FALSE, path |-> NoPath, cmds |-> cmds,
              why |-> why]
        ELSE [fs |-> f2, versions |-> update_version_config(cv, tag, exe),
              ok |-> TRUE, path |-> exe, cmds |-> cmds, why |-> why]

NoPrev == [archive |-> "none", path |-> NoPath]

\* DownloadDialog.extract_file on a freshly downloaded archive a of version
\* tag: the archive kind decides the procedure; on success the archive file
\* is removed (rm_ok: the removal succeeds)
extract_file(tag, a, oc, sub, rm_ok) ==
    /\ \E r \in {IF a \in ZipArchives
                  THEN extract_zip(fs, config_versions, tag, a, oc, sub)
                  ELSE extract_dmg(fs, config_versions, tag, a, oc, sub)} :
          /\ fs' = r.fs
          /\ config_versions' = r.versions
          /\ pending' = IF r.ok /\ rm_ok THEN "none" ELSE a
          /\ installs' = IF r.ok
                         THEN MapPut(installs, tag, [archive |-> a, path |-> r.path])
                         ELSE installs
          /\ lastInstall' = [tag |-> tag, archive |-> a, ok |-> r.ok, path |-> r.path,
                             prev |-> IF tag \in DOMAIN installs THEN installs[tag]
                                      ELSE NoPrev,
                             hadContents |-> fs[tag].files # {},
                             cmds |-> r.cmds, why |-> r.why,
                             record |-> IF tag \in DOMAIN config_versions
                                        THEN config_versions[tag] ELSE NoPath]
    /\ UNCHANGED <<running_instances, instances, is_windows, os, lastOp, dlVars, extVars>>

\* what a copy that fails had copied: nothing, the executable only, or
\* everything but the executable
CopyParts == {"nothing", "executable", "rest"}

IsExecutable(rel) == rel[Len(rel)] \in {"chrome.exe", "Chromium"}

Partial(a, part) ==
    IF part = "nothing" THEN {}
    ELSE IF part = "executable" THEN {r \in payload(a) : IsExecutable(r)}
    ELSE {r \in payload(a) : ~ IsExecutable(r)}

InitInst ==
    /\ running_instances = EmptyMap
    /\ instances = [n \in Names |->
                      [chromium_version |-> IF n = "c" THEN "v1" ELSE "default"]]
    /\ config_versions = EmptyMap
    /\ is_windows \in BOOLEAN
    /\ fs = [t \in Tags |-> [exists |-> FALSE, files |-> {}]]
    /\ os = [p \in Pids |-> FreeSlot]
    /\ lastOp = Op("init", "-", "ok", <<>>, {}, FALSE, FALSE, FALSE)
    /\ DlIdle
    /\ InstIdle
    /\ ExtIdle

NextInst ==
    \* (what a failing copy had copied matters only when the copy fails, and
    \* the removal of the archive only when the extraction succeeds)
    \/ \E tag \in Tags, a \in ZipArchives, oc \in ExtractOutcomes :
          \E part \in (IF oc = "copyfail" THEN CopyParts ELSE {"nothing"}),
             rm_ok \in (IF oc = "ok" THEN BOOLEAN ELSE {TRUE}) :
             is_windows /\ extract_file(tag, a, oc, Partial(a, part), rm_ok)
    \/ \E tag \in Tags, a \in DmgArchives, oc \in ExtractOutcomes :
          \E part \in (IF oc = "copyfail" THEN CopyParts ELSE {"nothing"}),
             rm_ok \in (IF oc = "ok" THEN BOOLEAN ELSE {TRUE}) :
             ~ is_windows /\ extract_file(tag, a, oc, Partial(a, part), rm_ok)

SpecInst == InitInst /\ [][NextInst]_vars

(***************************************************************************)
(* Instance registry: add_instance, edit_instance, delete_instance and the *)
(* validation of AddInstanceDialog.                                        *)
(***************************************************************************)
\* an instance name: its text up to the number it ends with, and that
\* number (0 when the name does not end with one); "Instance 2" is
\* ("Instance ", 2)
Name(text, num) == [text |-> text, num |-> num]

InstanceName(k) == Name("Instance ", k)

\* the whole text of a name, which is the key of running_instances
KeyOf(name) == IF name.num = 0 THEN name.text ELSE name.text \o ToString(name.num)

\* what the user may leave in the name field besides the prefilled text
TypedNames == {InstanceName(1), Name("x", 0), Name(" ", 0), Name("", 0)}

\* str.strip() of a name is empty
IsBlank(name) == name.num = 0 /\ name.text \in {"", " "}

\* InstanceUtils.get_next_number(instances, field, prefix, start): one more
\* than the largest number that follows the prefix in a value of the field
get_next_number(list, field, prefix, start) ==
    LET existing_numbers == {list[i][field].num : i \in {j \in DOMAIN list :
                                                          /\ field \in DOMAIN list[j]
                                                          /\ list[j][field].text = prefix
                                                          /\ list[j][field].num > 0}}
    IN  (IF existing_numbers = {} THEN start - 1
         ELSE CHOOSE m \in existing_numbers : \A x \in existing_numbers : x <= m) + 1

\* a user data directory: root, and when num > 0 the separator sep and
\* "default" with the number in three digits after it;
\* "/tmp/chromium/default001" is ("/tmp/chromium", "/", 1)
Dir(root, sep, num) == [root |-> root, sep |-> sep, num |-> num]

\* InstanceUtils.get_next_data_dir_number(instances, is_windows); the
\* Windows base path is os.path.join("C:", "temp", "chromium")
get_next_data_dir_number(list, win) ==
    LET base_path == IF win THEN "C:temp\\chromium" ELSE "/tmp/chromium"
        \* f"{base_path}/default" in dir_path, and int() of what follows
        existing_dirs == {list[i]["user_data_dir"].num : i \in {j \in DOMAIN list :
                             /\ "user_data_dir" \in DOMAIN list[j]
                             /\ list[j]["user_data_dir"].root = base_path
                             /\ list[j]["user_data_dir"].sep = "/"
                             /\ list[j]["user_data_dir"].num > 0}}
    IN  (IF existing_dirs = {} THEN 0
         ELSE CHOOSE m \in existing_dirs : \A x \in existing_dirs : x <= m) + 1

\* InstanceUtils.get_default_instance_values(instances, ip_info, is_windows):
\* the fields of the model
get_default_instance_values(list, win) ==
    [f \in {"name", "fingerprint", "user_data_dir", "proxy_server", "chromium_version"} |->
        CASE f = "name" -> InstanceName(get_next_number(list, "name", "Instance ", 1))
          [] f = "fingerprint" -> Name("", get_next_number(list, "fingerprint", "", 1000))
          [] f = "user_data_dir" ->
                IF win
                THEN Dir("C:temp\\chromium", "\\", get_next_data_dir_number(list, win))
                ELSE Dir("/tmp/chromium", "/", get_next_data_dir_number(list, win))
          [] f = "proxy_server" -> ""
          [] f = "chromium_version" -> "default"]

\* AddInstanceDialog.get_instance_data: the fields of the model
get_instance_data(name, fingerprint, user_data_dir, version) ==
    [f \in {"name", "fingerprint", "user_data_dir", "chromium_version"} |->
        CASE f = "name" -> name
          [] f = "fingerprint" -> fingerprint
          [] f = "user_data_dir" -> user_data_dir
          [] f = "chromium_version" -> version]

save_config_reverting(doc, list, cv, save_ok) ==
    [document |-> IF save_ok
                  THEN [kind |-> "mapping", has_instances |-> TRUE, instances_null |-> FALSE,
                        instances |-> list, has_versions |-> TRUE, versions_null |-> FALSE,
                        versions |-> cv]
                  ELSE doc,
     instances |-> IF save_ok \/ doc.kind # "mapping" THEN list ELSE doc.instances,
     versions |-> IF save_ok \/ doc.kind # "mapping" THEN cv ELSE doc.versions,
     reported |-> ~ save_ok]

\* save_config() with self.config holding the instances list and the
\* version records cv: the persisted document and self.config after it,
\* and whether the failure dialog was shown; save_ok: open and yaml.dump
\* succeed. No exception leaves it.
save_config(doc, list, cv, save_ok) ==
    [document |-> IF save_ok
                  THEN [kind |-> "mapping", has_instances |-> TRUE, instances_null |-> FALSE,
                        instances |-> list, has_versions |-> TRUE, versions_null |-> FALSE,
                        versions |-> cv]
                  ELSE doc,
     instances |-> list, versions |-> cv, reported |-> ~ save_ok]

\* what a handler that may not reach its save_config leaves: saves is
\* whether it reaches it
saved_if(saves, doc, list, cv, save_ok) ==
    IF saves THEN save_config(doc, list, cv, save_ok) @@ [save |-> IF save_ok THEN "ok" ELSE "failed"]
    ELSE [document |-> doc, instances |-> list, versions |-> cv, reported |-> FALSE,
          save |-> "none"]

download_version_trusting(f, cv, win, tag, a, oc, sub) ==
    [fs |-> f, versions |-> cv, ok |-> TRUE]

\* download_version for a version that is not installed: the download
\* fails or is abandoned (oc = "dlfail"), or the archive is installed
download_version(f, cv, win, tag, a, oc, sub) ==
    IF oc = "dlfail"
    THEN [fs |-> f, versions |-> cv, ok |-> FALSE]
    ELSE LET r == IF win THEN extract_zip(f, cv, tag, a, oc, sub)
                  ELSE extract_dmg(f, cv, tag, a, oc, sub)
         IN  [fs |-> r.fs, versions |-> r.versions, ok |-> r.ok]

\* AddInstanceDialog.validate_and_accept: whether the dialog is accepted,
\* and the version records and version directories it leaves. fields_ok:
\* the other required fields are filled in and the two numbers parse;
\* reply: the answer to "download now?"; why: the way the dialog was left
validate_and_accept(name, version, fields_ok, reply, a, oc, sub) ==
    IF IsBlank(name) \/ ~ fields_ok
    THEN [accepted |-> FALSE, fs |-> fs, versions |-> config_versions, why |-> "invalid"]
    ELSE LET hv == has_version(config_versions, fs, is_windows, version)
         IN  IF hv.found
             THEN [accepted |-> TRUE, fs |-> fs, versions |-> hv.versions,
                   why |-> "installed"]
             ELSE IF ~ reply
             THEN [accepted |-> FALSE, fs |-> fs, versions |-> hv.versions,
                   why |-> "declined"]
             ELSE IF \A i \in DOMAIN available_versions :
                        available_versions[i].tag_name # version
             THEN [accepted |-> FALSE, fs |-> fs, versions |-> hv.versions,
                   why |-> "noinfo"]
             ELSE LET d == download_version(fs, hv.versions, is_windows, version, a, oc, sub)
                  IN  [accepted |-> d.ok, fs |-> d.fs, versions |-> d.versions,
                       why |-> IF d.ok THEN "downloaded" ELSE "failed"]

\* the texts version_combo can hold: the tags of available_versions, or the
\* empty text when there are none
VersionTags(av) == IF av = <<>> THEN {""} ELSE {av[i].tag_name : i \in DOMAIN av}

\* what the user types over a prefilled fingerprint and user data directory

\* add_instance: the dialog opens on the generated defaults, the user saves
\* it with a name and a version; typed: the user replaces the prefilled
\* fingerprint and user data directory
add_instance(name, typed, version, fields_ok, reply, a, oc, sub, save_ok) ==
    LET default_values == get_default_instance_values(instance_list, is_windows)
        profile == IF typed
                   THEN [fingerprint |-> Name("abc", 0),
                         user_data_dir |-> Dir("/data/profile", "", 0)]
                   ELSE default_values
    IN  /\ Len(instance_list) < MaxInstances
        /\ default_values["name"].num <= MaxNumber
        /\ default_values["fingerprint"].num < 1000 + MaxNumber
        /\ default_values["user_data_dir"].num <= MaxNumber
        /\ name \in TypedNames \cup {default_values["name"]}
        /\ version \in VersionTags(available_versions)
        /\ \E v \in {validate_and_accept(name, version, fields_ok, reply, a, oc, sub)} :
           \* has_version saves a record it finds, an accepted dialog is
           \* followed by save_config() and update_table()
           \E s \in {saved_if(v.accepted \/ v.versions # config_versions, document,
                              IF v.accepted
                              THEN Append(instance_list,
                                          get_instance_data(name, profile["fingerprint"],
                                                            profile["user_data_dir"],
                                                            version))
                              ELSE instance_list,
                              v.versions, save_ok)} :
              /\ instance_list' = s.instances
              /\ fs' = v.fs
              /\ config_versions' = s.versions
              /\ document' = s.document
              /\ lastAccept' = [op |-> "add", version |-> version, why |-> v.why,
                                accepted |-> v.accepted,
                                changed |-> s.instances # instance_list, save |-> s.save]
        /\ lastDelete' = Idle.delete
        /\ UNCHANGED <<running_instances, instances, is_windows, os, lastOp, dlVars, instVars,
                       dirs, feedVars, lastResolve, lastLoad, lastBatch, launch, guiVars>>

\* edit_instance on the row current_row; the dialog opens on the instance,
\* the user saves it with a name and a version
edit_instance(current_row, name, version, fields_ok, reply, a, oc, sub, save_ok) ==
    /\ current_row \in DOMAIN instance_list
    /\ name \in TypedNames \cup {instance_list[current_row]["name"]}
    /\ version \in VersionTags(available_versions)
    /\ \E v \in {validate_and_accept(name, version, fields_ok, reply, a, oc, sub)} :
       \E s \in {saved_if(v.accepted \/ v.versions # config_versions, document,
                          IF v.accepted
                          THEN [instance_list EXCEPT ![current_row] =
                                   get_instance_data(name, @["fingerprint"],
                                                     @["user_data_dir"], version)]
                          ELSE instance_list,
                          v.versions, save_ok)} :
          /\ instance_list' = s.instances
          /\ fs' = v.fs
          /\ config_versions' = s.versions
          /\ document' = s.document
          /\ lastAccept' = [op |-> "edit", version |-> version, why |-> v.why,
                            accepted |-> v.accepted,
                            changed |-> s.instances # instance_list, save |-> s.save]
    /\ lastDelete' = Idle.delete
    /\ UNCHANGED <<running_instances, instances, is_windows, os, lastOp, dlVars, instVars,
                       dirs, feedVars, lastResolve, lastLoad, lastBatch, launch, guiVars>>

\* list.remove(x): the first element equal to x goes
RECURSIVE RemoveFirst(_, _)
RemoveFirst(list, x) ==
    IF list = <<>> THEN <<>>
    ELSE IF Head(list) = x THEN Tail(list)
    ELSE <<Head(list)>> \o RemoveFirst(Tail(list), x)

delete_one_despite_failure(st, instance, row, rm_fails) ==
    [list |-> RemoveFirst(st.list, instance),
     dirs |-> IF row \in rm_fails THEN st.dirs ELSE st.dirs \ {instance["user_data_dir"]},
     failed |-> st.failed,
     removed |-> st.removed \cup {row}]

\* the body of the loop of delete_instance for one selected instance, the
\* one of row `row` when the delete began; rm_fails: the rows on which
\* shutil.rmtree raises
delete_one(st, instance, row, rm_fails) ==
    IF instance["user_data_dir"] \in st.dirs /\ row \in rm_fails
    THEN [st EXCEPT !.failed = @ \cup {row}]                 \* continue
    ELSE [list |-> RemoveFirst(st.list, instance),
          dirs |-> st.dirs \ {instance["user_data_dir"]},
          failed |-> st.failed,
          removed |-> st.removed \cup {row}]

running_selected_all(list, rows, table) ==
    IF \A i \in rows : KeyOf(list[i]["name"]) \in DOMAIN table THEN rows ELSE {}

\* running_selected of delete_instance: the selected rows whose instance
\* has an entry in running_instances
running_selected(list, rows, table) ==
    {i \in rows : KeyOf(list[i]["name"]) \in DOMAIN table}

\* delete_instance, confirmed, on the checked rows: the selected instances
\* are handled from the last row to the first, and update_table() saves;
\* with a selected instance in running_instances it returns after a warning
delete_instance(rows, rm_fails, save_ok) ==
    LET RECURSIVE loop(_, _)
        loop(st, row) ==
            IF row = 0 THEN st
            ELSE loop(IF row \in rows
                      THEN delete_one(st, instance_list[row], row, rm_fails)
                      ELSE st,
                      row - 1)
        rejected == running_selected(instance_list, rows, running_instances) # {}
    IN  /\ rows # {}
        /\ rows \subseteq DOMAIN instance_list
        /\ rm_fails \subseteq rows
        /\ \E r \in {loop([list |-> instance_list, dirs |-> dirs, failed |-> {},
                            removed |-> {}], Len(instance_list))} :
           \E s \in {saved_if(~ rejected, document, r.list, config_versions, save_ok)} :
              /\ instance_list' = IF rejected THEN instance_list ELSE s.instances
              /\ dirs' = IF rejected THEN dirs ELSE r.dirs
              /\ config_versions' = s.versions
              /\ document' = s.document
              /\ lastDelete' = [before |-> instance_list, dirs |-> dirs, selected |-> rows,
                                failed |-> IF rejected THEN {} ELSE r.failed,
                                removed |-> IF rejected THEN {} ELSE r.removed,
                                rejected |-> rejected, save |-> s.save]
        /\ lastAccept' = Idle.accept
        /\ UNCHANGED <<running_instances, instances, fs, is_windows, os, lastOp,
                       dlVars, instVars, feedVars, lastResolve, lastLoad, lastBatch, launch, guiVars>>

\* the browser of an instance creates its user data directory
create_user_data_dir(row) ==
    /\ row \in DOMAIN instance_list
    /\ instance_list[row]["user_data_dir"] \notin dirs
    /\ dirs' = dirs \cup {instance_list[row]["user_data_dir"]}
    /\ lastDelete' = Idle.delete
    /\ lastAccept' = Idle.accept
    /\ UNCHANGED <<lifecycleVars, dlVars, instVars, instance_list, feedVars,
                   lastResolve, loadVars, lastBatch, launch, guiVars>>

\* an entry of available_versions
VersionEntry(tag, name, published_at) ==
    [tag_name |-> tag, name |-> name, published_at |-> published_at]

InitReg ==
    /\ running_instances = EmptyMap
    \* (the version of an instance by the text of its name, which is what
    \* the lifecycle operations look up; they run on the default version)
    /\ instances = [k \in {KeyOf(n) : n \in TypedNames \cup
                                           {InstanceName(i) : i \in 1..MaxNumber}} |->
                      [chromium_version |-> "default"]]
    /\ config_versions = EmptyMap
    /\ is_windows \in BOOLEAN
    /\ fs = [t \in Tags |->
               IF t = "default"
               THEN [exists |-> TRUE, files |-> InstalledFiles(is_windows)]
               ELSE [exists |-> FALSE, files |-> {}]]
    /\ os = [p \in Pids |-> FreeSlot]
    /\ lastOp = Op("init", "-", "ok", <<>>, {}, FALSE, FALSE, FALSE)
    /\ DlIdle
    /\ InstIdle
    /\ instance_list = <<>>
    /\ dirs = {}
    /\ lastDelete = Idle.delete
    /\ lastAccept = Idle.accept
    /\ is_macos = ~ is_windows
    /\ feed = <<>>
    /\ available_versions \in {<<>>, <<VersionEntry("v1", <<"v1">>, 2),
                                       VersionEntry("default", <<"default">>, 1)>>}
    /\ lastFetch = Idle.fetch
    /\ lastResolve = Idle.resolve
    /\ document = Idle.document
    /\ lastLoad = Idle.load
    /\ lastBatch = Idle.batch
    /\ launch = Idle.launch
    /\ pc = "idle"
    /\ frame = Idle.frame
    /\ trace = <<>>
    /\ readers = {}

\* the answers the user can give when the dialog asks whether to download
\* the version
Replies(name, version, fields_ok) ==
    IF /\ ~ IsBlank(name)
       /\ fields_ok
       /\ ~ has_version(config_versions, fs, is_windows, version).found
    THEN BOOLEAN ELSE {FALSE}

\* what a download that was asked for can do: <<result, archive, what a
\* failing copy had copied>>
DownloadChoices(asked) ==
    IF asked
    THEN {<<oc, a, IF oc = "copyfail" THEN Partial(a, part) ELSE {}>> :
             oc \in {"dlfail"} \cup ExtractOutcomes,
             a \in (IF is_windows THEN ZipArchives ELSE DmgArchives),
             part \in CopyParts}
    ELSE {<<"dlfail", "none", {}>>}

NameInputs == TypedNames \cup {InstanceName(k) : k \in 1..MaxNumber}

NextReg ==
    \/ \E name \in NameInputs, version \in Tags \cup {""}, fields_ok \in BOOLEAN :
          \E reply \in Replies(name, version, fields_ok) :
             \E d \in DownloadChoices(reply) :
                add_instance(name, TRUE, version, fields_ok, reply, d[2], d[1], d[3], TRUE)
    \/ \E row \in 1..MaxInstances, name \in NameInputs, version \in Tags \cup {""},
          fields_ok \in BOOLEAN :
          \E reply \in Replies(name, version, fields_ok) :
             \E d \in DownloadChoices(reply) :
                edit_instance(row, name, version, fields_ok, reply, d[2], d[1], d[3], TRUE)

SpecReg == InitReg /\ [][NextReg]_vars

\* The registry with its user data directories: instances are added on an
\* installed version, their browsers create their directories, and
\* instances are deleted.
NextProfiles ==
    \/ \E name \in NameInputs, typed \in BOOLEAN :
          add_instance(name, typed, "default", TRUE, FALSE, "none", "dlfail", {}, TRUE)
    \/ \E row \in 1..MaxInstances : create_user_data_dir(row)
    \/ \E rows \in SUBSET (1..MaxInstances), rm_fails \in SUBSET (1..MaxInstances) :
          delete_instance(rows, rm_fails, TRUE)

SpecProfiles == InitReg /\ [][NextProfiles]_vars

\* The registry together with the running_instances table: instances are
\* added, renamed and deleted while they are started, stopped and
\* reconciled.
NextTable ==
    \/ add_instance(InstanceName(1), TRUE, "default", TRUE, FALSE, "none", "dlfail", {}, TRUE)
    \* an instance is renamed
    \/ \E row \in 1..MaxInstances :
          edit_instance(row, Name("x", 0), "default", TRUE, FALSE, "none", "dlfail", {}, TRUE)
    \/ \E rows \in SUBSET (1..MaxInstances) : delete_instance(rows, {}, TRUE)
    \/ \E row \in 1..MaxInstances : create_user_data_dir(row)
    \* (the OS gives out the lowest free pid)
    \/ \E row \in DOMAIN instance_list, p \in Pids :
          /\ os[p].st = "free"
          /\ \A q \in 1..(p - 1) : os[q].st # "free"
          /\ start_selected_instance(KeyOf(instance_list[row]["name"]), "ok", p)
    \/ \E row \in DOMAIN instance_list :
          stop_selected_instance(KeyOf(instance_list[row]["name"]), "exits_on_term")
    \/ update_process_status
    \/ \E p \in Pids : ProcExit(p)

InitTable == InitReg /\ ~ is_windows /\ available_versions # <<>>

SpecTable == InitTable /\ [][NextTable]_vars

\* The registry operations on a configuration file that may not be
\* writable, beside started instances.
NextSave ==
    \/ \E save_ok \in BOOLEAN :
          add_instance(InstanceName(1), TRUE, "default", TRUE, FALSE, "none", "dlfail", {},
                       save_ok)
    \/ \E row \in 1..MaxInstances, save_ok \in BOOLEAN :
          edit_instance(row, Name("x", 0), "default", TRUE, FALSE, "none", "dlfail", {},
                        save_ok)
    \/ \E rows \in SUBSET (1..MaxInstances), save_ok \in BOOLEAN :
          delete_instance(rows, {}, save_ok)
    \/ \E row \in DOMAIN instance_list, p \in Pids :
          /\ os[p].st = "free"
          /\ \A q \in 1..(p - 1) : os[q].st # "free"
          /\ start_selected_instance(KeyOf(instance_list[row]["name"]), "ok", p)

SpecSave == InitTable /\ [][NextSave]_vars

(***************************************************************************)
(* Version catalogue: the release feed and fetch_available_versions.       *)
(***************************************************************************)
\* Asset names are sequences of tokens; no keyword or extension of the
\* filter straddles two tokens.
AssetNames ==
    { <<"chromium-v10-", "windows", ".zip">>,
      <<"Chromium-v10-", "Windows", ".ZIP">>,
      <<"chromium-v10-", "macos", ".dmg">>,
      <<"chromium-v10-", "windows", ".zip", ".sha256">>,
      <<"chromium-v10-", "macos", ".zip">> }

\* str.lower(), token by token
lower(name) ==
    [i \in DOMAIN name |->
        CASE name[i] = "Chromium-v10-" -> "chromium-v10-"
          [] name[i] = "Windows"       -> "windows"
          [] name[i] = ".ZIP"          -> ".zip"
          [] OTHER                     -> name[i]]

\* keyword in asset_name
contains(name, keyword) == \E i \in DOMAIN name : name[i] = keyword

\* asset_name.endswith(ext)
endswith(name, ext) == name # <<>> /\ name[Len(name)] = ext

platform_filter_cased(win, mac, name) ==
    \/ (win /\ contains(name, "windows") /\ endswith(name, ".zip"))
    \/ (mac /\ contains(name, "macos") /\ endswith(name, ".dmg"))

\* the platform filter of fetch_available_versions on asset['name']
platform_filter(win, mac, name) ==
    LET asset_name == lower(name)
    IN  \/ (win /\ contains(asset_name, "windows") /\ endswith(asset_name, ".zip"))
        \/ (mac /\ contains(asset_name, "macos") /\ endswith(asset_name, ".dmg"))

\* the entries of one release, in the order of its assets
RECURSIVE release_entries(_, _, _, _)
release_entries(win, mac, release, assets) ==
    IF assets = <<>> THEN <<>>
    ELSE (IF platform_filter(win, mac, Head(assets))
          THEN <<VersionEntry(release.tag_name, Head(assets), release.published_at)>>
          ELSE <<>>)
         \o release_entries(win, mac, release, Tail(assets))

\* the loop over the releases
RECURSIVE collect_versions(_, _, _)
collect_versions(win, mac, releases) ==
    IF releases = <<>> THEN <<>>
    ELSE release_entries(win, mac, Head(releases), Head(releases).assets)
         \o collect_versions(win, mac, Tail(releases))

\* list.sort(key=published_at, reverse=True): stable, newest first
RECURSIVE insert_sorted(_, _)
insert_sorted(sorted, e) ==
    IF sorted = <<>> THEN <<e>>
    ELSE IF Head(sorted).published_at >= e.published_at
    THEN <<Head(sorted)>> \o insert_sorted(Tail(sorted), e)
    ELSE <<e>> \o sorted

sort_versions_unsorted(list) == list

RECURSIVE sort_versions(_)
sort_versions(list) ==
    IF list = <<>> THEN <<>>
    ELSE insert_sorted(sort_versions(SubSeq(list, 1, Len(list) - 1)), list[Len(list)])

\* fetch_available_versions(); oc: how the request ends, "ok" or
\* "RequestException"
fetch_available_versions(oc) ==
    /\ available_versions' =
          IF oc = "ok" THEN sort_versions(collect_versions(is_windows, is_macos, feed))
          ELSE available_versions
    /\ lastFetch' = [result |-> oc, feed |-> feed]
    /\ UNCHANGED <<lifecycleVars, dlVars, instVars, is_macos, feed,
                   instance_list, profileVars, lastResolve, loadVars, lastBatch, launch, guiVars>>

AssetCount(releases) ==
    IF releases = <<>> THEN 0
    ELSE LET n == Len(releases)
             RECURSIVE sum(_)
             sum(i) == IF i = 0 THEN 0 ELSE Len(releases[i].assets) + sum(i - 1)
         IN  sum(n)

\* the publisher creates a release
publish_release(tag, date) ==
    /\ (IF feed = <<>> THEN TRUE ELSE feed[Len(feed)].assets # <<>>)
    /\ AssetCount(feed) < MaxAssets
    /\ feed' = Append(feed, [tag_name |-> tag, published_at |-> date, assets |-> <<>>])
    /\ UNCHANGED <<lifecycleVars, dlVars, instVars, is_macos, available_versions, lastFetch,
                   instance_list, profileVars, lastResolve, loadVars, lastBatch, launch, guiVars>>

\* the publisher adds an asset to the latest release
upload_asset(name) ==
    /\ feed # <<>>
    /\ AssetCount(feed) < MaxAssets
    /\ feed' = [feed EXCEPT ![Len(feed)].assets = Append(@, name)]
    /\ UNCHANGED <<lifecycleVars, dlVars, instVars, is_macos, available_versions, lastFetch,
                   instance_list, profileVars, lastResolve, loadVars, lastBatch, launch, guiVars>>

InitFeed ==
    /\ running_instances = EmptyMap
    /\ instances = [n \in Names |->
                      [chromium_version |-> IF n = "c" THEN "v1" ELSE "default"]]
    /\ config_versions = EmptyMap
    /\ is_windows \in BOOLEAN
    /\ is_macos \in BOOLEAN
    /\ ~ (is_windows /\ is_macos)
    /\ fs = [t \in Tags |-> [exists |-> FALSE, files |-> {}]]
    /\ os = [p \in Pids |-> FreeSlot]
    /\ lastOp = Op("init", "-", "ok", <<>>, {}, FALSE, FALSE, FALSE)
    /\ DlIdle
    /\ InstIdle
    /\ instance_list = <<>>
    /\ dirs = {}
    /\ lastDelete = Idle.delete
    /\ lastAccept = Idle.accept
    /\ feed = <<>>
    /\ available_versions = <<>>
    /\ lastFetch = Idle.fetch
    /\ lastResolve = Idle.resolve
    /\ document = Idle.document
    /\ lastLoad = Idle.load
    /\ lastBatch = Idle.batch
    /\ launch = Idle.launch
    /\ pc = "idle"
    /\ frame = Idle.frame
    /\ trace = <<>>
    /\ readers = {}

NextFeed ==
    \/ \E oc \in {"ok", "RequestException"} : fetch_available_versions(oc)
    \* published_at[:10] as a day number
    \/ \E tag \in Tags, date \in {1, 2} : publish_release(tag, date)
    \/ \E name \in AssetNames : upload_asset(name)

SpecFeed == InitFeed /\ [][NextFeed]_vars

(***************************************************************************)
(* Version catalogue: get_chromium_path and has_version as operations, on  *)
(* version directories that change under the manager.                      *)
(***************************************************************************)
\* get_chromium_path(version), called
resolve_executable(version) ==
    LET r == get_chromium_path(config_versions, fs, is_windows, version)
    IN  /\ config_versions' = r.versions
        /\ lastResolve' = [op |-> "get_chromium_path", version |-> version, path |-> r.path,
                           found |-> r.path # NoPath,
                           updated |-> r.versions # config_versions]
        /\ UNCHANGED <<running_instances, instances, fs, is_windows, os, lastOp, dlVars,
                       instVars, instance_list, profileVars, feedVars, loadVars, lastBatch, launch, guiVars>>

\* has_version(version), called
is_installed(version) ==
    LET r == has_version(config_versions, fs, is_windows, version)
    IN  /\ config_versions' = r.versions
        /\ lastResolve' = [op |-> "has_version", version |-> version,
                           path |-> IF version \in DOMAIN r.versions /\ r.found
                                    THEN r.versions[version] ELSE NoPath,
                           found |-> r.found,
                           updated |-> r.versions # config_versions]
        /\ UNCHANGED <<running_instances, instances, fs, is_windows, os, lastOp, dlVars,
                       instVars, instance_list, profileVars, feedVars, loadVars, lastBatch, launch, guiVars>>

\* the relative paths of the candidate list
CandidateRels == {possible_paths(is_windows, "default")[i].rel :
                     i \in DOMAIN possible_paths(is_windows, "default")}

\* somebody puts an executable into a version directory by hand
place_file(tag, rel) ==
    /\ rel \in CandidateRels
    /\ \A x \in fs[tag].files : x.rel # rel
    /\ fs' = [fs EXCEPT ![tag] = [exists |-> TRUE, files |-> @.files \cup {File(rel, "manual")}]]
    /\ UNCHANGED <<running_instances, instances, config_versions, is_windows, os, lastOp,
                   dlVars, instVars, extVars>>

\* somebody deletes a file of a version directory
remove_file(tag, rel) ==
    /\ \E x \in fs[tag].files : x.rel = rel
    /\ fs' = [fs EXCEPT ![tag].files = {x \in @ : x.rel # rel}]
    /\ UNCHANGED <<running_instances, instances, config_versions, is_windows, os, lastOp,
                   dlVars, instVars, extVars>>

\* somebody creates or deletes a version directory
make_dir(tag) ==
    /\ ~ fs[tag].exists
    /\ fs' = [fs EXCEPT ![tag].exists = TRUE]
    /\ UNCHANGED <<running_instances, instances, config_versions, is_windows, os, lastOp,
                   dlVars, instVars, extVars>>

remove_dir(tag) ==
    /\ fs[tag].exists
    /\ fs' = [fs EXCEPT ![tag] = [exists |-> FALSE, files |-> {}]]
    /\ UNCHANGED <<running_instances, instances, config_versions, is_windows, os, lastOp,
                   dlVars, instVars, extVars>>

NextCat ==
    \/ \E version \in Tags : resolve_executable(version)
    \/ \E version \in Tags : is_installed(version)
    \/ \E tag \in Tags, rel \in CandidateRels : place_file(tag, rel)
    \/ \E tag \in Tags, rel \in CandidateRels : remove_file(tag, rel)
    \/ \E tag \in Tags : make_dir(tag)
    \/ \E tag \in Tags : remove_dir(tag)

\* the catalogue starts with no version directory and no record, as InitInst
SpecCat == InitInst /\ [][NextCat]_vars

(***************************************************************************)
(* Persistence: load_config on the persisted document.                     *)
(***************************************************************************)
\* the instance fields of the model; the other fields of
\* get_default_instance_values are patched in the same loop
Fields == {"name", "user_data_dir", "proxy_server", "chromium_version"}

\* a value a persisted instance holds for a field
DocValue(f) ==
    CASE f = "name"             -> InstanceName(2)
      [] f = "user_data_dir"    -> Dir("/data/profile", "", 0)
      [] f = "proxy_server"     -> "http://proxy:8080"
      [] f = "chromium_version" -> "v1"

\* the persisted document: no file, a file that parses to nothing, text
\* that does not parse, or a mapping with or without each top-level key
\* (instances_null, versions_null: the key is there and holds null)
\* an instance record of a document holds any subset of the fields
Documents(win) ==
    LET DocInstances == {[f \in D |-> DocValue(f)] : D \in SUBSET Fields}
        DocInstanceLists == UNION {[1..n -> DocInstances] : n \in 0..MaxInstances}
        DocVersions == {EmptyMap,
                        MapPut(EmptyMap, "default", possible_paths(win, "default")[1])}
    IN
    {[kind |-> k] : k \in {"missing", "empty", "unparsable"}}
    \cup {[kind |-> "mapping", has_instances |-> hi, instances_null |-> FALSE,
           instances |-> il, has_versions |-> hv, versions_null |-> FALSE, versions |-> v] :
             hi \in BOOLEAN, il \in DocInstanceLists, hv \in BOOLEAN, v \in DocVersions}
    \cup {[kind |-> "mapping", has_instances |-> TRUE, instances_null |-> TRUE,
           instances |-> <<>>, has_versions |-> hv, versions_null |-> FALSE,
           versions |-> EmptyMap] : hv \in BOOLEAN}
    \cup {[kind |-> "mapping", has_instances |-> hi, instances_null |-> FALSE,
           instances |-> il, has_versions |-> TRUE, versions_null |-> TRUE,
           versions |-> EmptyMap] : hi \in BOOLEAN, il \in DocInstanceLists}

patch_overwriting(inst, defaults) ==
    [f \in DOMAIN inst \cup DOMAIN defaults |->
        IF f \in DOMAIN defaults THEN defaults[f] ELSE inst[f]]

\* the inner loop of load_config: if k not in inst: inst[k] = v
patch(inst, defaults) ==
    [f \in DOMAIN inst \cup DOMAIN defaults |->
        IF f \in DOMAIN inst THEN inst[f] ELSE defaults[f]]

load_raises_without_versions(doc) ==
    \/ doc.kind = "unparsable"
    \/ (doc.kind = "mapping" /\ doc.has_instances /\ doc.instances_null)
    \/ (doc.kind = "mapping" /\ ~ doc.has_versions)

\* load_config ends in one of its except clauses: yaml.YAMLError, or the
\* TypeError of len(None)
load_raises(doc) ==
    \/ doc.kind = "unparsable"
    \/ (doc.kind = "mapping" /\ doc.has_instances /\ doc.instances_null)

\* self.config['instances'] after the keys were completed
loaded_instances(doc) ==
    IF doc.kind = "mapping" /\ doc.has_instances THEN doc.instances ELSE <<>>

\* load_config(), called once by __init__; save_ok: the save_config of
\* _create_default_config succeeds
load_config(save_ok) ==
    /\ lastLoad.kind = "none"
    /\ instance_list' =
          IF load_raises(document) THEN <<>>
          ELSE [i \in DOMAIN loaded_instances(document) |->
                   patch(loaded_instances(document)[i],
                         get_default_instance_values(<<>>, is_windows))]
    \* self.config['versions'] after the keys were completed; when the
    \* document holds null there it stays None, which lastLoad.doc records
    /\ config_versions' =
          IF ~ load_raises(document) /\ document.kind = "mapping" /\ document.has_versions
          THEN document.versions ELSE EmptyMap
    \* _create_default_config saves the fresh configuration
    /\ document' =
          IF load_raises(document) /\ save_ok
          THEN [kind |-> "mapping", has_instances |-> TRUE, instances_null |-> FALSE,
                instances |-> <<>>, has_versions |-> TRUE, versions_null |-> FALSE,
                versions |-> EmptyMap]
          ELSE document
    /\ lastLoad' = [kind |-> document.kind, failed |-> load_raises(document),
                    doc |-> document, saved |-> load_raises(document) /\ save_ok]
    /\ UNCHANGED <<running_instances, instances, fs, is_windows, os, lastOp, dlVars, instVars,
                   profileVars, feedVars, lastResolve, lastBatch, launch, guiVars>>

InitLoad ==
    /\ running_instances = EmptyMap
    /\ instances = [n \in Names |->
                      [chromium_version |-> IF n = "c" THEN "v1" ELSE "default"]]
    /\ config_versions = EmptyMap
    /\ is_windows \in BOOLEAN
    /\ fs = [t \in Tags |->
               IF t = "default"
               THEN [exists |-> TRUE, files |-> InstalledFiles(is_windows)]
               ELSE [exists |-> FALSE, files |-> {}]]
    /\ os = [p \in Pids |-> FreeSlot]
    /\ lastOp = Op("init", "-", "ok", <<>>, {}, FALSE, FALSE, FALSE)
    /\ DlIdle
    /\ InstIdle
    /\ instance_list = <<>>
    /\ dirs = {}
    /\ lastDelete = Idle.delete
    /\ lastAccept = Idle.accept
    /\ is_macos = ~ is_windows
    /\ feed = <<>>
    /\ available_versions = <<>>
    /\ lastFetch = Idle.fetch
    /\ lastResolve = Idle.resolve
    /\ document \in Documents(is_windows)
    /\ lastLoad = Idle.load
    /\ lastBatch = Idle.batch
    /\ launch = Idle.launch
    /\ pc = "idle"
    /\ frame = Idle.frame
    /\ trace = <<>>
    /\ readers = {}

NextLoad ==
    \/ \E save_ok \in BOOLEAN : load_config(save_ok)
    \* the catalogue is queried after the load; on a version mapping that
    \* is None both queries raise
    \/ \E version \in Tags :
          /\ lastLoad.kind # "none"
          /\ ~ (lastLoad.kind = "mapping" /\ lastLoad.doc.versions_null)
          /\ resolve_executable(version)
    \/ \E version \in Tags :
          /\ lastLoad.kind # "none"
          /\ ~ (lastLoad.kind = "mapping" /\ lastLoad.doc.versions_null)
          /\ is_installed(version)

SpecLoad == InitLoad /\ [][NextLoad]_vars

(***************************************************************************)
(* Batch start, batch stop and shutdown: the loops of                      *)
(* batch_start_instances, batch_stop_instances and closeEvent over         *)
(* start_instance, stop_instance and the processes.                        *)
(***************************************************************************)
\* the rows of the table, in the order of config['instances']
\* get_selected_instances(): the checked rows, in table order
get_selected_instances(checked) == SelectSeq(<<"a", "b", "c">>, LAMBDA n : n \in checked)

\* start_instance(instance) on the table ri, the processes o and the version
\* records cv: what it leaves and what it reports
start_step(st, name, oc, p) ==
    IF name \in DOMAIN st.ri
    THEN [st |-> st, report |-> "rejected_running"]
    ELSE LET r == get_chromium_path(st.cv, fs, is_windows, instances[name].chromium_version)
         IN  IF r.path = NoPath
             THEN [st |-> [st EXCEPT !.cv = r.versions], report |-> "unresolved"]
             ELSE IF oc = "ok" /\ st.os[p].st = "free"
             THEN [st |-> [ri |-> MapPut(st.ri, name, p),
                           os |-> [st.os EXCEPT ![p] =
                                      [st |-> "alive", owner |-> name, denied |-> FALSE]],
                           cv |-> r.versions],
                   report |-> "started"]
             ELSE [st |-> [st EXCEPT !.cv = r.versions],
                   report |-> IF oc = "ok" THEN "OSError" ELSE oc]

\* stop_instance(instance) in the same terms
stop_step(st, name, resp) ==
    IF name \notin DOMAIN st.ri
    THEN [st |-> st, report |-> "rejected_not_running"]
    ELSE LET pid == st.ri[name]
         IN  IF st.os[pid].st = "free"
             THEN [st |-> [st EXCEPT !.ri = MapRemove(st.ri, name)], report |-> "cleaned"]
             ELSE IF st.os[pid].denied
             THEN [st |-> st, report |-> "AccessDenied"]
             ELSE IF st.os[pid].st = "zombie" \/ resp \in {"exits_on_term", "exits_on_kill"}
             THEN [st |-> [st EXCEPT !.ri = MapRemove(st.ri, name), !.os[pid] = FreeSlot],
                   report |-> IF st.os[pid].st = "zombie" \/ resp = "exits_on_term"
                              THEN "stopped" ELSE "stopped_forced"]
             ELSE [st |-> st, report |-> "error"]

batch_stops_at_failure(report) == report \in {"started", "stopped", "stopped_forced", "cleaned"}

\* whether the loop of a batch operation goes on to the next member after
\* a member's start_instance or stop_instance returned with this report:
\* both return normally on every report, and an exception would be caught
\* inside the loop
batch_continues(report) == TRUE

\* what the process of a member can do when it is signalled
BatchResponses(o, pid) ==
    IF o[pid].st = "alive" /\ ~ o[pid].denied THEN TermResponses ELSE {"exits_on_term"}

\* one member of a batch was handled: the try block of the loop body
batch_member(acc, name, r) ==
    [st |-> r.st,
     attempts |-> Append(acc.attempts, [name |-> name, report |-> r.report]),
     success_count |-> acc.success_count + 1,
     failed_instances |-> acc.failed_instances]

\* the loop of batch_start_instances from member i on: the results it can
\* have, over what subprocess.Popen does for a member whose executable
\* resolves (it succeeds with a pid that is free, or fails)
RECURSIVE batch_start_loop(_, _, _, _)
batch_start_loop(acc, selected, i, go) ==
    IF i > Len(selected) \/ ~ go THEN {acc}
    ELSE IF selected[i] \in DOMAIN acc.st.ri
    THEN batch_start_loop(acc, selected, i + 1, TRUE)
    ELSE LET version == instances[selected[i]].chromium_version
             spawns == IF get_chromium_path(acc.st.cv, fs, is_windows, version).path = NoPath
                       THEN {<<"OSError", 1>>}
                       ELSE {<<"ok", p>> : p \in {q \in Pids : acc.st.os[q].st = "free"}}
                            \cup {<<"OSError", 1>>}
         IN  UNION { LET r == start_step(acc.st, selected[i], c[1], c[2])
                     IN  batch_start_loop(batch_member(acc, selected[i], r), selected, i + 1,
                                          batch_continues(r.report)) :
                     c \in spawns }

\* the loop of batch_stop_instances from member i on
RECURSIVE batch_stop_loop(_, _, _, _)
batch_stop_loop(acc, selected, i, go) ==
    IF i > Len(selected) \/ ~ go THEN {acc}
    ELSE IF selected[i] \notin DOMAIN acc.st.ri
    THEN batch_stop_loop(acc, selected, i + 1, TRUE)
    ELSE UNION { LET r == stop_step(acc.st, selected[i], resp)
                 IN  batch_stop_loop(batch_member(acc, selected[i], r), selected, i + 1,
                                     batch_continues(r.report)) :
                 resp \in BatchResponses(acc.st.os, acc.st.ri[selected[i]]) }

BatchStart == [st |-> [ri |-> running_instances, os |-> os, cv |-> config_versions],
               attempts |-> <<>>, success_count |-> 0, failed_instances |-> <<>>]

\* a batch operation or the shutdown has run; the specification follows the
\* manager up to the first of them
batch_done == lastBatch.op # "none"

\* batch_start_instances() with the rows checked; r: what the loop did
batch_start_instances(checked, r) ==
    /\ ~ batch_done
    /\ running_instances' = r.st.ri
    /\ os' = r.st.os
    /\ config_versions' = r.st.cv
    /\ lastBatch' = [op |-> "batch_start", selected |-> get_selected_instances(checked),
                     was_running |-> DOMAIN running_instances,
                     attempts |-> r.attempts, success_count |-> r.success_count,
                     failed_instances |-> r.failed_instances]
    /\ UNCHANGED <<instances, fs, is_windows, lastOp, dlVars, instVars,
                   instance_list, profileVars, feedVars, lastResolve, loadVars, launch, guiVars>>

\* batch_stop_instances() with the rows checked
batch_stop_instances(checked, r) ==
    /\ ~ batch_done
    /\ running_instances' = r.st.ri
    /\ os' = r.st.os
    /\ lastBatch' = [op |-> "batch_stop", selected |-> get_selected_instances(checked),
                     was_running |-> DOMAIN running_instances,
                     attempts |-> r.attempts, success_count |-> r.success_count,
                     failed_instances |-> r.failed_instances]
    /\ UNCHANGED <<instances, config_versions, fs, is_windows, lastOp, dlVars, instVars,
                   instance_list, profileVars, feedVars, lastResolve, loadVars, launch, guiVars>>

close_requests_term_only(target, resp) ==
    IF target.st = "free" THEN <<>> ELSE <<"TERM">>

\* the requests closeEvent makes of one entry's process: terminate(), and
\* kill() when wait(timeout=3) times out; none when psutil.Process(pid)
\* raises NoSuchProcess, terminate() only when it is denied
close_requests(target, resp) ==
    IF target.st = "free" THEN <<>>
    ELSE IF target.denied \/ target.st = "zombie" \/ resp = "exits_on_term" THEN <<"TERM">>
    ELSE <<"TERM", "KILL">>

\* the loop of closeEvent over list(self.running_instances.items()), from
\* entry i on
RECURSIVE close_loop(_, _, _)
close_loop(acc, order, i) ==
    IF i > Len(order) THEN {acc}
    ELSE UNION { LET name == order[i]
                     pid == running_instances[name]
                     target == acc.os[pid]
                     exits == /\ target.st # "free"
                              /\ ~ target.denied
                              /\ (target.st = "zombie" \/ resp # "survives")
                 IN  close_loop(
                         [os |-> IF exits THEN [acc.os EXCEPT ![pid] = FreeSlot] ELSE acc.os,
                          attempts |-> Append(acc.attempts,
                                          [name |-> name, pid |-> pid, target |-> target,
                                           resp |-> resp,
                                           requests |-> close_requests(target, resp)])],
                         order, i + 1) :
                 resp \in BatchResponses(acc.os, running_instances[order[i]]) }

\* closeEvent(event); r: what the loop did
closeEvent(order, r) ==
    /\ ~ batch_done
    /\ os' = r.os
    /\ lastBatch' = [op |-> "closeEvent", selected |-> order,
                     was_running |-> DOMAIN running_instances,
                     attempts |-> r.attempts, success_count |-> 0,
                     failed_instances |-> <<>>]
    /\ UNCHANGED <<running_instances, instances, config_versions, fs, is_windows, lastOp,
                   dlVars, instVars, instance_list, profileVars, feedVars, lastResolve, loadVars, launch, guiVars>>

\* what the manager did before the batch operation: start_instance,
\* stop_instance and update_process_status, of which no record is kept here
start_one(name, oc, p) ==
    LET r == start_step(BatchStart.st, name, oc, p)
    IN  /\ ~ batch_done
        /\ running_instances' = r.st.ri
        /\ os' = r.st.os
        /\ config_versions' = r.st.cv
        /\ UNCHANGED <<instances, fs, is_windows, lastOp, dlVars, instVars, extVars>>

stop_one(name, resp) ==
    LET r == stop_step(BatchStart.st, name, resp)
    IN  /\ ~ batch_done
        /\ running_instances' = r.st.ri
        /\ os' = r.st.os
        /\ UNCHANGED <<instances, config_versions, fs, is_windows, lastOp, dlVars, instVars,
                       extVars>>

reconcile ==
    /\ ~ batch_done
    /\ running_instances' =
          [n \in {m \in DOMAIN running_instances : ~ is_dead(running_instances[m])}
              |-> running_instances[n]]
    /\ UNCHANGED <<instances, config_versions, fs, is_windows, os, lastOp, dlVars, instVars,
                   extVars>>

NextBatch ==
    \/ \E checked \in SUBSET Names :
          \E r \in batch_start_loop(BatchStart, get_selected_instances(checked), 1, TRUE) :
             batch_start_instances(checked, r)
    \/ \E checked \in SUBSET Names :
          \E r \in batch_stop_loop(BatchStart, get_selected_instances(checked), 1, TRUE) :
             batch_stop_instances(checked, r)
    \* closeEvent: in any order a dict of these names may be iterated
    \/ \E order \in {o \in [1..Cardinality(DOMAIN running_instances)
                               -> DOMAIN running_instances] :
                         \A i, j \in DOMAIN o : o[i] = o[j] => i = j} :
          \E r \in close_loop([os |-> os, attempts |-> <<>>], order, 1) : closeEvent(order, r)
    \/ \E n \in Names, c \in SpawnChoices : start_one(n, c[1], c[2])
    \/ \E n \in Names, resp \in TermResponses : stop_one(n, resp)
    \/ reconcile
    \/ \E p \in Pids : ~ batch_done /\ ProcExit(p)
    \/ \E p \in Pids : ~ batch_done /\ Reap(p)
    \/ \E p \in Pids, d \in BOOLEAN : ~ batch_done /\ PidReuse(p, d)
    \/ \E p \in Pids : ~ batch_done /\ OtherExit(p)

SpecBatch == Init /\ [][NextBatch]_vars

(***************************************************************************)
(* Launch arguments: _build_chromium_command and the command of            *)
(* VerifyFingerprintDialog.open_website.                                   *)
(***************************************************************************)
\* one argument of a command: f"{flag}{value}"; the executable and the URL
\* have no flag, the fixed switches no value
Arg(flag, value) == [flag |-> flag, value |-> value]

\* Constants.FINGERPRINT_SITES
FINGERPRINT_SITES ==
    {"https://bot.sannysoft.com/", "https://browserleaks.com/", "https://amiunique.org/",
     "https://abrahamjuliot.github.io/creepjs/"}

\* the arguments both commands start with; the proxy argument is there
\* when instance.get('proxy_server') is truthy
common_arguments(chromium_path, instance) ==
    <<Arg("", chromium_path),
      Arg("--fingerprint=", instance["fingerprint"]),
      Arg("--user-data-dir=", instance["user_data_dir"]),
      Arg("--timezone=", instance["timezone"])>>
    \o (IF "proxy_server" \in DOMAIN instance /\ instance["proxy_server"] # ""
        THEN <<Arg("--proxy-server=", instance["proxy_server"])>>
        ELSE <<>>)

\* _build_chromium_command(chromium_path, instance)
build_chromium_command(chromium_path, instance) ==
    common_arguments(chromium_path, instance)
    \o <<Arg("--no-first-run", ""), Arg("--disable-default-apps", ""),
         Arg("--disable-background-mode", "")>>

\* start_instance builds its command
build_command ==
    /\ launch.cmd = <<>>
    /\ launch' = [launch EXCEPT !.cmd = build_chromium_command(launch.path, launch.instance)]
    /\ UNCHANGED <<lifecycleVars, dlVars, instVars, instance_list, profileVars, feedVars, lastResolve, loadVars,
                   lastBatch, guiVars>>

\* VerifyFingerprintDialog.open_website builds its cmd
open_website ==
    /\ launch.verify = <<>>
    /\ launch' = [launch EXCEPT !.verify =
                     common_arguments(launch.path, launch.instance)
                     \o <<Arg("", launch.site)>>]
    /\ UNCHANGED <<lifecycleVars, dlVars, instVars, instance_list, profileVars, feedVars, lastResolve, loadVars,
                   lastBatch, guiVars>>

InitLaunch ==
    /\ running_instances = EmptyMap
    /\ instances = [n \in Names |->
                      [chromium_version |-> IF n = "c" THEN "v1" ELSE "default"]]
    /\ config_versions = EmptyMap
    /\ is_windows \in BOOLEAN
    /\ fs = [t \in Tags |-> [exists |-> FALSE, files |-> {}]]
    /\ os = [p \in Pids |-> FreeSlot]
    /\ lastOp = Op("init", "-", "ok", <<>>, {}, FALSE, FALSE, FALSE)
    /\ DlIdle
    /\ InstIdle
    /\ instance_list = <<>>
    /\ dirs = {}
    /\ lastDelete = Idle.delete
    /\ lastAccept = Idle.accept
    /\ is_macos = ~ is_windows
    /\ feed = <<>>
    /\ available_versions = <<>>
    /\ lastFetch = Idle.fetch
    /\ lastResolve = Idle.resolve
    /\ document = Idle.document
    /\ lastLoad = Idle.load
    /\ lastBatch = Idle.batch
    /\ pc = "idle"
    /\ frame = Idle.frame
    /\ trace = <<>>
    /\ readers = {}
    \* the instances a command is built for: with an empty proxy, with a
    \* proxy, and without the key proxy_server
    /\ launch \in
          LET LaunchInstances ==
                 {[f \in D |->
                      CASE f = "fingerprint"   -> fp
                        [] f = "user_data_dir" -> dir
                        [] f = "timezone"      -> tz
                        [] f = "proxy_server"  -> proxy] :
                    D \in {{"fingerprint", "user_data_dir", "timezone"},
                           {"fingerprint", "user_data_dir", "timezone", "proxy_server"}},
                    fp \in {"1000", "1001"},
                    dir \in {"/tmp/chromium/default001", "/data/profile"},
                    tz \in {"Asia/Shanghai", "UTC"}, proxy \in {"", "http://proxy:8080"}}
              ExecutablePaths ==
                 {"App/win_x64/v1/chrome.exe",
                  "App/macos/v1/Chromium.app/Contents/MacOS/Chromium"}
          IN  {[instance |-> i, path |-> p, site |-> u, cmd |-> <<>>, verify |-> <<>>] :
                  i \in LaunchInstances, p \in ExecutablePaths, u \in FINGERPRINT_SITES}

NextLaunch ==
    \/ build_command
    \/ open_website

SpecLaunch == InitLaunch /\ [][NextLaunch]_vars

(***************************************************************************)
(* The GUI thread: start_instance, stop_instance and the timer's           *)
(* update_process_status as the statements the Qt event loop runs, one     *)
(* handler at a time, next to the read_errors threads and the processes.   *)
(***************************************************************************)
EventLoopInWaits == {"idle", "dialog", "wait5", "wait2", "del"}

EventLoopInStart == {"idle", "dialog", "insert"}

\* where the Qt event loop dispatches the timer: app.exec() between
\* handlers, and the nested loop of a modal QMessageBox
EventLoop == {"idle", "dialog"}

after_wait_waiting_again(at, alive) ==
    IF ~ alive THEN "del" ELSE IF at = "wait5" THEN "wait2" ELSE "dialog"

after_wait_killing(at, alive) ==
    IF at = "wait5" THEN "kill" ELSE IF alive THEN "dialog" ELSE "del"

\* where stop_instance goes after process.wait(timeout=...) at `at`: on
\* TimeoutExpired (the process is alive) the first wait escalates to kill()
\* and the second leaves through except Exception; otherwise to the del
after_wait(at, alive) ==
    IF ~ alive THEN "del"
    ELSE IF at = "wait5" THEN "kill"
    ELSE "dialog"

\* start_instance(instance), statement by statement
start_instance_steps ==
    /\ \/ /\ pc = "idle"                  \* the checks, up to the command
          /\ \E n \in Names :
               /\ frame' = [op |-> "start", name |-> n, pid |-> 0]
               /\ pc' = IF n \in DOMAIN running_instances \/ resolve(n).path = NoPath
                        THEN "dialog" ELSE "spawn"
               /\ config_versions' = IF n \in DOMAIN running_instances THEN config_versions
                                     ELSE resolve(n).versions
          /\ trace' = <<>>
          /\ UNCHANGED <<running_instances, os, readers>>
       \/ /\ pc = "spawn"                 \* subprocess.Popen
          /\ \E c \in SpawnChoices :
               IF c[1] = "ok" /\ os[c[2]].st = "free"
               THEN /\ os' = [os EXCEPT ![c[2]] =
                                 [st |-> "alive", owner |-> frame.name, denied |-> FALSE]]
                    /\ frame' = [frame EXCEPT !.pid = c[2]]
                    /\ pc' = "insert"
               ELSE /\ pc' = "dialog"
                    /\ UNCHANGED <<os, frame>>
          /\ UNCHANGED <<running_instances, config_versions, trace, readers>>
       \/ /\ pc = "insert"                \* running_instances[name] = process.pid
          /\ running_instances' = MapPut(running_instances, frame.name, frame.pid)
          /\ pc' = "started"
          /\ UNCHANGED <<config_versions, os, frame, trace, readers>>
       \/ /\ pc = "started"               \* update_table, _check_process_errors
          /\ readers' = readers \cup {frame.pid}
          /\ pc' = "idle"
          /\ frame' = Idle.frame
          /\ UNCHANGED <<running_instances, config_versions, os, trace>>
       \/ /\ pc = "dialog"                \* the QMessageBox is closed
          /\ frame.op = "start"
          /\ pc' = "idle"
          /\ frame' = Idle.frame
          /\ UNCHANGED <<running_instances, config_versions, os, trace, readers>>
    /\ UNCHANGED <<instances, fs, is_windows, lastOp, dlVars, instVars, instance_list,
                   profileVars, feedVars, lastResolve, loadVars, lastBatch, launch>>

\* stop_instance(instance), statement by statement
stop_instance_steps ==
    /\ \/ /\ pc = "idle"                  \* the check, pid = running_instances[name]
          /\ \E n \in Names :
               IF n \in DOMAIN running_instances
               THEN /\ frame' = [op |-> "stop", name |-> n, pid |-> running_instances[n]]
                    /\ pc' = "terminate"
               ELSE /\ frame' = [op |-> "stop", name |-> n, pid |-> 0]
                    /\ pc' = "dialog"
          /\ trace' = <<>>
          /\ UNCHANGED <<running_instances, os>>
       \/ /\ pc = "terminate"             \* psutil.Process(pid), process.terminate()
          /\ IF os[frame.pid].st = "free"
             THEN pc' = "del" /\ trace' = Append(trace, <<"NoSuchProcess", frame.pid>>)
             ELSE IF os[frame.pid].denied
             THEN pc' = "dialog" /\ trace' = Append(trace, <<"AccessDenied", frame.pid>>)
             ELSE pc' = "wait5" /\ trace' = Append(trace, <<"TERM", frame.pid>>)
          /\ UNCHANGED <<running_instances, os, frame>>
       \/ /\ pc \in {"wait5", "wait2"}    \* process.wait(timeout=5), (timeout=2)
          /\ LET alive == os[frame.pid].st = "alive"
             IN  /\ pc' = after_wait(pc, alive)
                 /\ trace' = Append(trace, <<IF alive THEN "TimeoutExpired" ELSE "exited",
                                             frame.pid>>)
          /\ os' = IF os[frame.pid].st = "zombie"
                   THEN [os EXCEPT ![frame.pid] = FreeSlot] ELSE os
          /\ UNCHANGED <<running_instances, frame>>
       \/ /\ pc = "kill"                  \* process.kill()
          /\ IF os[frame.pid].st = "free"
             THEN pc' = "del" /\ trace' = Append(trace, <<"NoSuchProcess", frame.pid>>)
             ELSE pc' = "wait2" /\ trace' = Append(trace, <<"KILL", frame.pid>>)
          /\ UNCHANGED <<running_instances, os, frame>>
       \/ /\ pc = "del"                   \* del running_instances[name], update_table
          /\ IF frame.name \in DOMAIN running_instances
             THEN /\ running_instances' = MapRemove(running_instances, frame.name)
                  /\ pc' = "idle"
                  /\ frame' = Idle.frame
                  /\ trace' = <<>>
             ELSE /\ running_instances' = running_instances
                  /\ pc' = "dialog"       \* or out of the handler, uncaught
                  /\ frame' = frame
                  /\ trace' = Append(trace, <<"KeyError", frame.pid>>)
          /\ os' = os
       \/ /\ pc = "dialog"                \* the QMessageBox is closed
          /\ frame.op = "stop"
          /\ pc' = "idle"
          /\ frame' = Idle.frame
          /\ trace' = <<>>
          /\ UNCHANGED <<running_instances, os>>
    /\ UNCHANGED <<instances, config_versions, fs, is_windows, lastOp, dlVars, instVars,
                   instance_list, profileVars, feedVars, lastResolve, loadVars, lastBatch,
                   launch, readers>>

\* a read_errors thread: process.stderr.read() returns once the process has
\* closed its stderr; the thread logs, may ask for a warning box, and ends
read_errors(p) ==
    /\ p \in readers
    /\ os[p].st # "alive" \/ os[p].owner = Other
    /\ readers' = readers \ {p}
    /\ UNCHANGED <<lifecycleVars, dlVars, instVars, instance_list, profileVars, feedVars,
                   lastResolve, loadVars, lastBatch, launch, pc, frame, trace>>

NextGui ==
    \/ start_instance_steps
    \/ stop_instance_steps
    \/ (pc \in EventLoop /\ reconcile)
    \/ \E p \in Pids : read_errors(p)
    \/ \E p \in Pids : ProcExit(p)
    \/ \E p \in Pids : Reap(p)
    \/ \E p \in Pids, d \in BOOLEAN : PidReuse(p, d)
    \/ \E p \in Pids : OtherExit(p)

\* the manager after construction, on macOS (the platform only selects the
\* executable Start resolves)
InitGui == Init /\ ~ is_windows

SpecGui == InitGui /\ [][NextGui]_vars

\* the GUI thread runs a handler it has entered to its end
FairSpecGui == SpecGui /\ WF_vars(stop_instance_steps)

(***************************************************************************)
(* Claims about the process lifecycle manager.                             *)
(***************************************************************************)
\* the process that Start spawned for an entry is still alive at its pid
EntryProcessAlive(n) ==
    /\ os[running_instances[n]].st = "alive"
    /\ os[running_instances[n]].owner = n

\* C1: a reconciliation pass leaves exactly the entries whose OS process
\* (the one Start spawned for the instance) is still alive, each with the
\* pid it had; every other entry is removed.
C1_ReconcileRemovesExactlyTheDead ==
    [][update_process_status =>
         running_instances' =
            [n \in {m \in DOMAIN running_instances : EntryProcessAlive(m)}
                |-> running_instances[n]]]_vars

\* C2 (as claimed): when Stop returns on a Running instance whose freshly
\* started process is alive, the instance has no entry and the process is
\* gone, whatever the process does in response to the termination requests.
C2_StopAlwaysRemoves ==
    [][\A n \in Names, resp \in TermResponses :
         (n \in DOMAIN running_instances /\ EntryProcessAlive(n) /\ stop_instance(n, resp))
         => (n \notin DOMAIN running_instances'
             /\ os'[running_instances[n]].st = "free")]_vars

\* C2 (amended): when Stop returns on a Running instance, then either it
\* reports success, the instance has no entry and no process is left at the
\* entry's pid, or it reports an error (the forced-kill wait timed out after
\* both signals were sent, or access was denied) and the entry is retained.
C2_StopRemovesUnlessItReportsAnError ==
    (lastOp.op = "stop" /\ lastOp.tracked)
        => \/ /\ lastOp.report \in {"stopped", "stopped_forced", "cleaned"}
              /\ lastOp.name \notin DOMAIN running_instances
              /\ lastOp.gone
           \/ /\ lastOp.report \in {"error", "AccessDenied"}
              /\ lastOp.name \in DOMAIN running_instances
              /\ ~ lastOp.changed
              /\ (lastOp.report = "error" =>
                    /\ Len(lastOp.sigs) = 2
                    /\ lastOp.sigs[1].sig = "TERM"
                    /\ lastOp.sigs[2].sig = "KILL")
              /\ (lastOp.report = "AccessDenied" => lastOp.sigs = <<>>)

\* a Stop escalated to the forced kill and removed the entry
C2_Witness ==
    /\ lastOp.op = "stop"
    /\ lastOp.report = "stopped_forced"
    /\ lastOp.name \notin DOMAIN running_instances
    /\ lastOp.sigs # <<>>
    /\ lastOp.sigs[1].owner = lastOp.name

\* C3: Stop on an instance with no entry in running_instances is rejected
\* with a report and changes nothing: no signal is sent, no entry is
\* removed, and the table, the registry and the OS processes are as before.
C3_StopOfStoppedIsRejectedNoOp ==
    (lastOp.op = "stop" /\ ~ lastOp.tracked)
        => /\ lastOp.report = "rejected_not_running"
           /\ lastOp.sigs = <<>>
           /\ lastOp.removed = {}
           /\ ~ lastOp.changed

\* a Stop was rejected while other instances were running
C3_Witness ==
    /\ lastOp.op = "stop"
    /\ lastOp.report = "rejected_not_running"
    /\ lastOp.name \notin DOMAIN running_instances
    /\ \E n \in DOMAIN running_instances : EntryProcessAlive(n)

\* C4: Stop on an instance whose entry is present but whose OS process has
\* already died externally succeeds: the entry is removed and the outcome is
\* not an error.
C4_StopOfDeadProcessSucceeds ==
    [][\A n \in Names, resp \in TermResponses :
         (n \in DOMAIN running_instances /\ ~ EntryProcessAlive(n) /\ stop_instance(n, resp))
         => /\ n \notin DOMAIN running_instances'
            /\ lastOp'.report \notin {"error", "AccessDenied"}]_vars

\* C5: Start on an instance that has an entry is rejected: nothing is
\* spawned, and the table (so the pid of the entry) and the OS processes
\* are as before.
C5_StartOfRunningIsRejected ==
    (lastOp.op = "start" /\ lastOp.tracked)
        => /\ lastOp.report = "rejected_running"
           /\ ~ lastOp.changed
           /\ lastOp.name \in DOMAIN running_instances

\* a Start was rejected for an instance whose process is alive and tracked
C5_Witness ==
    /\ lastOp.op = "start"
    /\ lastOp.report = "rejected_running"
    /\ lastOp.name \in DOMAIN running_instances
    /\ EntryProcessAlive(lastOp.name)

StartFailures == {"unresolved", "FileNotFoundError", "PermissionError", "OSError"}

\* C6: a Start that fails (executable unresolved, or the spawn fails) is
\* reported and leaves the instance without an entry, every other entry
\* unchanged and no process spawned.
C6_FailedStartLeavesStopped ==
    (lastOp.op = "start" /\ lastOp.report \in StartFailures)
        => /\ ~ lastOp.tracked
           /\ ~ lastOp.changed
           /\ lastOp.name \notin DOMAIN running_instances

\* a spawn failed while another instance was running
C6_Witness ==
    /\ lastOp.op = "start"
    /\ lastOp.report \in {"FileNotFoundError", "PermissionError"}
    /\ lastOp.name \notin DOMAIN running_instances
    /\ running_instances # EmptyMap

(***************************************************************************)
(* Claims about the download coordinator.                                  *)
(***************************************************************************)
\* C7: if cancellation is requested while the transfer is in flight (the
\* response has arrived and the destination is open, no outcome has been
\* emitted), the outcome is the cancelled one, never the success outcome
\* (and no file is left at the destination): stated here by its clause
\* "never the success outcome".
C7_CancelInFlightNeverSucceeds ==
    (dl_pc = "done" /\ cancel_at = "loop") => Outcome # "ok"

\* C8: after any non-success outcome, no file is left at the destination.
C8_NoFileAfterFailure ==
    (dl_pc = "done" /\ Outcome # "ok") => ~ file_exists

\* C9: an invocation of download emits exactly one finished event: none
\* while it runs, one when it has ended, never two.
C9_ExactlyOneOutcome ==
    /\ dl_pc \in {"start", "loop"} => Len(Finished(events)) = 0
    /\ dl_pc = "done" => Len(Finished(events)) = 1

\* a cancelled download whose partial file could not be deleted has ended
C9_Witness ==
    /\ dl_pc = "done"
    /\ is_cancelled
    /\ file_exists
    /\ Outcome = "io"

(***************************************************************************)
(* Claims about the archive installer.                                     *)
(***************************************************************************)
\* the version directory of the last install holds exactly the payload of
\* the archive just installed
OnlyNewPayload ==
    fs[lastInstall.tag].files = FilesOf(lastInstall.archive, payload(lastInstall.archive))

\* C10 (as claimed): a successful install into a version directory that
\* already has contents leaves only the payload of the new install and
\* yields the same executable path as the earlier install of the tag.
C10_ReinstallSamePath ==
    (lastInstall.ok /\ lastInstall.hadContents /\ lastInstall.prev # NoPrev)
        => (OnlyNewPayload /\ lastInstall.path = lastInstall.prev.path)

\* C10 (amended): a successful install into a version directory that already
\* has contents leaves only the payload of the new install, for both archive
\* kinds; the executable path is the one recorded for the tag, and it is the
\* path of the earlier install whenever the same archive is installed again.
C10_ReinstallReplacesContents ==
    (lastInstall.ok /\ lastInstall.hadContents)
        => /\ OnlyNewPayload
           /\ PathExists(fs, lastInstall.path)
           /\ config_versions[lastInstall.tag] = lastInstall.path
           /\ (lastInstall.prev.archive = lastInstall.archive
                 => lastInstall.path = lastInstall.prev.path)

\* the same archive was installed again over the contents of its earlier
\* install for the same tag
C10_Witness ==
    /\ lastInstall.ok
    /\ lastInstall.hadContents
    /\ lastInstall.prev.archive = lastInstall.archive
    /\ lastInstall.path = lastInstall.prev.path

(***************************************************************************)
(* Claims about the instance registry.                                     *)
(***************************************************************************)
\* C11: no two instances of the registry have the same name, after any
\* sequence of add and edit operations.
C11_NamesUnique ==
    \A i, j \in DOMAIN instance_list :
        instance_list[i]["name"] = instance_list[j]["name"] => i = j

(***************************************************************************)
(* Claims about the version catalogue.                                     *)
(***************************************************************************)
\* the platform keyword and archive extension of the host
C12_Keyword == IF is_windows THEN "windows" ELSE "macos"

C12_Extension == IF is_windows THEN ".zip" ELSE ".dmg"

\* the (release, asset) positions of the answered feed whose asset name,
\* case-insensitively, contains the keyword and ends with the extension
C12_Matching ==
    {ra \in {<<r, a>> : r \in DOMAIN lastFetch.feed, a \in 1..MaxAssets} :
        /\ ra[2] \in DOMAIN lastFetch.feed[ra[1]].assets
        /\ LET n == lower(lastFetch.feed[ra[1]].assets[ra[2]])
           IN  /\ \E i \in DOMAIN n : n[i] = C12_Keyword
               /\ n[Len(n)] = C12_Extension}

\* C12: after a successful fetch on a Windows or macOS host the list has
\* exactly one entry per matching asset of the feed, carrying the asset's
\* name and its release's tag, and no other entry.
C12_OneEntryPerMatchingAsset ==
    (lastFetch.result = "ok" /\ (is_windows \/ is_macos))
        => \E f \in [DOMAIN available_versions -> C12_Matching] :
              /\ \A i, j \in DOMAIN available_versions : f[i] = f[j] => i = j
              /\ \A ra \in C12_Matching : \E i \in DOMAIN available_versions : f[i] = ra
              /\ \A i \in DOMAIN available_versions :
                    LET rel == lastFetch.feed[f[i][1]]
                    IN  /\ available_versions[i].name = rel.assets[f[i][2]]
                        /\ available_versions[i].tag_name = rel.tag_name

\* the spec's example: a Windows host, a release with a Windows zip and a
\* macOS disk image, and the one zip entry in the list
C12_Witness ==
    /\ is_windows
    /\ lastFetch.result = "ok"
    /\ Len(lastFetch.feed) = 1
    /\ lastFetch.feed[1].assets = << <<"chromium-v10-", "windows", ".zip">>,
                                     <<"chromium-v10-", "macos", ".dmg">> >>
    /\ Len(available_versions) = 1
    /\ available_versions[1].name = <<"chromium-v10-", "windows", ".zip">>

\* the persisted VersionRecord path of a tag (NoPath: no record)
Persisted(version) ==
    IF version \in DOMAIN config_versions THEN config_versions[version] ELSE NoPath

\* p is the first path of the ordered candidate list that exists on disk
IsFirstCandidate(version, p) ==
    LET cands == possible_paths(is_windows, version)
    IN  \E i \in DOMAIN cands :
           /\ cands[i] = p
           /\ PathExists(fs, cands[i])
           /\ \A j \in 1..(i - 1) : ~ PathExists(fs, cands[j])

\* C13: get_chromium_path returns the persisted path whenever that path
\* exists on disk, even if a candidate exists too; otherwise the first
\* existing candidate, and the record of the tag then holds exactly that
\* path (the records of the other tags as before); otherwise it returns
\* None and leaves the records unchanged.
C13_ResolveExecutable ==
    [][\A version \in Tags :
         resolve_executable(version) =>
            IF PathExists(fs, Persisted(version))
            THEN /\ lastResolve'.path = Persisted(version)
                 /\ config_versions' = config_versions
            ELSE IF \E p \in {possible_paths(is_windows, version)[i] :
                                 i \in DOMAIN possible_paths(is_windows, version)} :
                       PathExists(fs, p)
            THEN /\ IsFirstCandidate(version, lastResolve'.path)
                 /\ DOMAIN config_versions' = DOMAIN config_versions \cup {version}
                 /\ config_versions'[version] = lastResolve'.path
                 /\ \A t \in DOMAIN config_versions \ {version} :
                       config_versions'[t] = config_versions[t]
            ELSE /\ lastResolve'.path = NoPath
                 /\ config_versions' = config_versions]_vars

\* get_chromium_path replaced a stale record by the first of two existing
\* candidates
C13_Witness ==
    /\ lastResolve.op = "get_chromium_path"
    /\ lastResolve.updated
    /\ lastResolve.path = possible_paths(is_windows, lastResolve.version)[1]
    /\ config_versions[lastResolve.version] = lastResolve.path
    /\ PathExists(fs, possible_paths(is_windows, lastResolve.version)[2])

\* C14: in every state and for every tag, has_version is true exactly when
\* get_chromium_path returns a path, and both leave the same version
\* records.
C14_IsInstalledIsResolve ==
    \A version \in Tags :
        LET h == has_version(config_versions, fs, is_windows, version)
            g == get_chromium_path(config_versions, fs, is_windows, version)
        IN  /\ h.found = (g.path # NoPath)
            /\ h.versions = g.versions

\* has_version found a version that had no record and recorded it
C14_Witness ==
    /\ lastResolve.op = "has_version"
    /\ lastResolve.found
    /\ lastResolve.updated
    /\ PathExists(fs, lastResolve.path)

(***************************************************************************)
(* Claims about persistence.                                               *)
(***************************************************************************)
\* an executable of the tag is on disk at one of the candidate paths
OnDisk(version) ==
    \E i \in DOMAIN possible_paths(is_windows, version) :
        PathExists(fs, possible_paths(is_windows, version)[i])

\* C15: loading a document that lacks the versions key does not error; its
\* instances are loaded, the version mapping is empty (until a resolution
\* records something), and get_chromium_path still returns an existing
\* path for every tag whose executable is on disk.
C15_LoadWithoutVersions ==
    (lastLoad.kind = "mapping" /\ document.kind = "mapping"
        /\ ~ document.instances_null /\ ~ document.has_versions)
        => /\ ~ lastLoad.failed
           /\ Len(instance_list) = Len(loaded_instances(document))
           /\ \A i \in DOMAIN instance_list :
                 \A f \in DOMAIN document.instances[i] :
                     document.has_instances => instance_list[i][f] = document.instances[i][f]
           /\ (lastResolve.op = "none" => config_versions = EmptyMap)
           /\ \A version \in Tags :
                 OnDisk(version) =>
                    PathExists(fs, get_chromium_path(config_versions, fs, is_windows, version).path)

\* a document with an instance and no versions key was loaded, and the
\* executable of the default version was then resolved from disk
C15_Witness ==
    /\ lastLoad.kind = "mapping"
    /\ ~ lastLoad.failed
    /\ ~ document.has_versions
    /\ document.has_instances
    /\ Len(instance_list) >= 1
    /\ lastResolve.op = "get_chromium_path"
    /\ lastResolve.updated
    /\ PathExists(fs, lastResolve.path)

\* C16: after a load, every instance has every default field, every field
\* the document gave keeps its value, the instances are as many and in the
\* order of the document, and a missing top-level key is initialised empty.
C16_LoadPatchesWithoutOverwriting ==
    (lastLoad.kind \in {"missing", "empty", "mapping"} /\ ~ lastLoad.failed)
        => /\ Len(instance_list) =
                 (IF document.kind = "mapping" /\ document.has_instances
                  THEN Len(document.instances) ELSE 0)
           /\ \A i \in DOMAIN instance_list :
                 /\ Fields \subseteq DOMAIN instance_list[i]
                 /\ \A f \in DOMAIN document.instances[i] :
                       instance_list[i][f] = document.instances[i][f]
           /\ (lastResolve.op = "none" /\ ~ (document.kind = "mapping" /\ document.has_versions))
                 => config_versions = EmptyMap

\* two instances were loaded in order, the first with a field of its own
\* and a field filled in from the defaults
C16_Witness ==
    /\ lastLoad.kind = "mapping"
    /\ ~ lastLoad.failed
    /\ Len(instance_list) = 2
    /\ DOMAIN document.instances[1] = {"proxy_server"}
    /\ DOMAIN document.instances[2] = {"name"}
    /\ instance_list[1]["proxy_server"] = DocValue("proxy_server")
    /\ instance_list[1]["name"] = InstanceName(1)
    /\ instance_list[2]["name"] = DocValue("name")

(***************************************************************************)
(* Claims about batch start, batch stop and shutdown.                      *)
(***************************************************************************)
AttemptNames == [i \in DOMAIN lastBatch.attempts |-> lastBatch.attempts[i].name]

StartedReports == {"started"}

StoppedReports == {"stopped", "stopped_forced", "cleaned"}

\* C17: batch start attempts Start on every selected instance that was not
\* Running, batch stop attempts Stop on every selected instance that was
\* Running, in the order of the selection, whatever the attempts on the
\* earlier members reported.
C17_BatchAttemptsEveryMember ==
    /\ lastBatch.op = "batch_start" =>
          /\ AttemptNames = SelectSeq(lastBatch.selected,
                                      LAMBDA n : n \notin lastBatch.was_running)
          /\ \A i \in DOMAIN lastBatch.attempts :
                lastBatch.attempts[i].report # "rejected_running"
    /\ lastBatch.op = "batch_stop" =>
          /\ AttemptNames = SelectSeq(lastBatch.selected,
                                      LAMBDA n : n \in lastBatch.was_running)
          /\ \A i \in DOMAIN lastBatch.attempts :
                lastBatch.attempts[i].report # "rejected_not_running"

\* a batch start whose first attempt failed and whose second attempt
\* started its instance
C17_Witness ==
    /\ lastBatch.op = "batch_start"
    /\ Len(lastBatch.attempts) >= 2
    /\ lastBatch.attempts[1].report \notin StartedReports
    /\ lastBatch.attempts[2].report \in StartedReports
    /\ lastBatch.attempts[2].name \in DOMAIN running_instances

\* C18: the outcome a batch reports is accurate: the members counted as
\* succeeded are those whose Start (Stop) succeeded, and every member whose
\* Start (Stop) failed is reported as failed.
C18_BatchOutcomeAccurate ==
    LET good == IF lastBatch.op = "batch_start" THEN StartedReports ELSE StoppedReports
        succeeded == {i \in DOMAIN lastBatch.attempts : lastBatch.attempts[i].report \in good}
    IN  lastBatch.op \in {"batch_start", "batch_stop"}
           => /\ lastBatch.success_count = Cardinality(succeeded)
              /\ Len(lastBatch.failed_instances) =
                    Len(lastBatch.attempts) - Cardinality(succeeded)

\* C19: closeEvent handles every entry of the table once; the process of
\* every entry, if there is one, is requested to terminate, and is
\* requested to be killed when it has not exited within the wait; a request
\* that is denied or a process that is gone does not keep the later entries
\* from being handled.
C19_ShutdownTerminatesEveryEntry ==
    lastBatch.op = "closeEvent"
        => /\ Len(lastBatch.attempts) = Cardinality(lastBatch.was_running)
           /\ {lastBatch.attempts[i].name : i \in DOMAIN lastBatch.attempts}
                 = lastBatch.was_running
           /\ \A i \in DOMAIN lastBatch.attempts :
                 LET at == lastBatch.attempts[i]
                 IN  /\ at.pid = running_instances[at.name]
                     /\ at.target.st # "free" =>
                           (at.requests # <<>> /\ at.requests[1] = "TERM")
                     /\ (at.target.st = "alive" /\ ~ at.target.denied
                            /\ at.resp # "exits_on_term")
                           => at.requests = <<"TERM", "KILL">>

\* a shutdown in which the termination of one entry was denied and a later
\* entry's process was terminated and then killed
C19_Witness ==
    /\ lastBatch.op = "closeEvent"
    /\ \E i, j \in DOMAIN lastBatch.attempts :
          /\ i < j
          /\ lastBatch.attempts[i].target.denied
          /\ lastBatch.attempts[j].requests = <<"TERM", "KILL">>

(***************************************************************************)
(* Claims about the launch arguments.                                      *)
(***************************************************************************)
\* the argument vector the launch contract prescribes
C20_Contract ==
    <<Arg("", launch.path),
      Arg("--fingerprint=", launch.instance["fingerprint"]),
      Arg("--user-data-dir=", launch.instance["user_data_dir"]),
      Arg("--timezone=", launch.instance["timezone"])>>
    \o (IF "proxy_server" \in DOMAIN launch.instance /\ launch.instance["proxy_server"] # ""
        THEN <<Arg("--proxy-server=", launch.instance["proxy_server"])>> ELSE <<>>)
    \o <<Arg("--no-first-run", ""), Arg("--disable-default-apps", ""),
         Arg("--disable-background-mode", "")>>

\* C20: the vector Start builds is the one of the contract, and the vector
\* of the verification flow is that same vector with the URL appended.
C20_LaunchArguments ==
    /\ launch.cmd # <<>> => launch.cmd = C20_Contract
    /\ launch.verify # <<>> => launch.verify = C20_Contract \o <<Arg("", launch.site)>>

\* the first half of C20 alone: the vector Start builds
C20_StartArguments == launch.cmd # <<>> => launch.cmd = C20_Contract

(***************************************************************************)
(* Claims about the release feed, continued.                               *)
(***************************************************************************)
\* C21: when the release-feed request fails, the list of available versions
\* is empty afterwards, whatever an earlier successful call had produced.
C21_FailedFetchYieldsEmpty ==
    lastFetch.result = "RequestException" => available_versions = <<>>

\* C22: the list a successful fetch produces is ordered newest first: of
\* two consecutive entries the earlier has the greater or the same
\* published date.
C22_NewestFirst ==
    lastFetch.result = "ok"
        => \A i \in 1..(Len(available_versions) - 1) :
               available_versions[i].published_at >= available_versions[i + 1].published_at

\* the feed lists an older release before a newer one, each with a matching
\* asset, and the fetched list has the newer one first
C22_Witness ==
    /\ lastFetch.result = "ok"
    /\ Len(lastFetch.feed) = 2
    /\ lastFetch.feed[1].published_at < lastFetch.feed[2].published_at
    /\ Len(available_versions) = 2
    /\ available_versions[1].published_at = lastFetch.feed[2].published_at
    /\ available_versions[2].published_at = lastFetch.feed[1].published_at

(***************************************************************************)
(* Claims about the registry and its user data directories.                *)
(***************************************************************************)
\* C23: for every registry content, on both platforms, the generated
\* default name, fingerprint and user data directory each differ from
\* those of every instance in the registry.
C23_DefaultsAreUnique ==
    LET default_values == get_default_instance_values(instance_list, is_windows)
    IN  \A i \in DOMAIN instance_list :
            \A f \in {"name", "fingerprint", "user_data_dir"} :
                instance_list[i][f] # default_values[f]

\* C25: after a confirmed delete every selected instance either had its
\* directory removal fail and is still in the registry, or is gone from the
\* registry and its directory does not exist; the instances that were not
\* selected are all still there.
C25_DeleteFollowsDirectoryRemoval ==
    lastDelete.selected # {}
        => LET before == lastDelete.before
               Records == {before[i] : i \in DOMAIN before}
                          \cup {instance_list[i] : i \in DOMAIN instance_list}
               Kept == DOMAIN before \ lastDelete.removed
           IN  /\ lastDelete.removed \cup lastDelete.failed = lastDelete.selected
               /\ lastDelete.removed \cap lastDelete.failed = {}
               /\ \A row \in lastDelete.removed : before[row]["user_data_dir"] \notin dirs
               /\ \A x \in Records :
                      Cardinality({i \in DOMAIN instance_list : instance_list[i] = x})
                         = Cardinality({i \in Kept : before[i] = x})

\* two instances were selected; the directory of the first was removed and
\* the instance went, the removal of the second's failed and it stayed
C25_Witness ==
    /\ lastDelete.selected = {1, 2}
    /\ lastDelete.removed = {1}
    /\ lastDelete.failed = {2}
    /\ lastDelete.before[1]["user_data_dir"] \in lastDelete.dirs
    /\ lastDelete.before[1]["user_data_dir"] # lastDelete.before[2]["user_data_dir"]
    /\ instance_list = <<lastDelete.before[2]>>

(***************************************************************************)
(* Claims about loading, continued.                                        *)
(***************************************************************************)
\* a document that is malformed: text that does not parse, or a mapping
\* whose instances or versions key holds null
Malformed(doc) ==
    \/ doc.kind = "unparsable"
    \/ (doc.kind = "mapping" /\ (doc.instances_null \/ doc.versions_null))

\* C24: loading a malformed document does not crash; the document in memory
\* becomes the fresh empty one (no instances, no version records), and the
\* persisted document is replaced by it when the save succeeds.
C24_MalformedIsReplaced ==
    (lastLoad.kind # "none" /\ Malformed(lastLoad.doc) /\ lastResolve.op = "none")
        => /\ lastLoad.failed
           /\ instance_list = <<>>
           /\ config_versions = EmptyMap
           /\ (lastLoad.saved
                  => document = [kind |-> "mapping", has_instances |-> TRUE,
                                 instances_null |-> FALSE, instances |-> <<>>,
                                 has_versions |-> TRUE, versions_null |-> FALSE,
                                 versions |-> EmptyMap])

\* C26: whenever Stop removes an instance's entry, no process is left at the
\* entry's pid (it exited or did not exist); when Stop reports that access
\* was denied or that the process survived the forced-kill wait, the entry
\* is retained with its pid and the process is still there.
C26_StopRemovesOnlyWhenProcessGone ==
    lastOp.op = "stop"
        => /\ (lastOp.removed # {}
                 => /\ lastOp.removed = {lastOp.name}
                    /\ lastOp.tracked
                    /\ lastOp.gone)
           /\ ((lastOp.tracked /\ lastOp.report \in {"AccessDenied", "error"})
                 => /\ lastOp.removed = {}
                    /\ ~ lastOp.gone
                    /\ lastOp.name \in DOMAIN running_instances)
           /\ ((lastOp.tracked /\ ~ lastOp.gone)
                 => lastOp.name \in DOMAIN running_instances)

\* a Stop sent both signals, the process survived the forced-kill wait, and
\* the entry of the live process is retained
C26_Witness ==
    /\ lastOp.op = "stop"
    /\ lastOp.report = "error"
    /\ Len(lastOp.sigs) = 2
    /\ lastOp.name \in DOMAIN running_instances
    /\ EntryProcessAlive(lastOp.name)

(***************************************************************************)
(* Claims about Stop, Start and reconciliation on the GUI thread.          *)
(***************************************************************************)
\* C27: in Stop the forced kill is sent only after a graceful termination
\* request to the same process and a timed-out graceful wait; a process
\* that exits within the graceful wait is never sent a forced kill; and the
\* forced kill is followed by a second bounded wait.
C27_KillOnlyAfterGracefulTimeout ==
    /\ \A i \in DOMAIN trace :
          trace[i][1] = "KILL" =>
             /\ i = 3
             /\ trace[1] = <<"TERM", trace[i][2]>>
             /\ trace[2] = <<"TimeoutExpired", trace[i][2]>>
             /\ IF Len(trace) = i THEN pc = "wait2"
                ELSE trace[i + 1] \in {<<"exited", trace[i][2]>>,
                                       <<"TimeoutExpired", trace[i][2]>>}
    /\ (Len(trace) >= 2 /\ trace[2][1] = "exited")
          => \A i \in DOMAIN trace : trace[i][1] # "KILL"

\* a Stop whose process outlived the graceful wait was killed, exited within
\* the second wait, and is about to remove its entry
C27_Witness ==
    /\ frame.op = "stop"
    /\ Len(trace) = 4
    /\ trace[3][1] = "KILL"
    /\ trace[4][1] = "exited"
    /\ pc = "del"

\* C28: a Stop performs at most one graceful wait (before any forced kill)
\* and at most one forced wait (after it), and every Stop that has started
\* comes to its end or to the box that reports its failure, whatever the
\* process does.
C28_StopAlwaysReturns ==
    /\ [](\A i, j \in DOMAIN trace :
             (/\ i < j
              /\ trace[i][1] \in {"exited", "TimeoutExpired"}
              /\ trace[j][1] \in {"exited", "TimeoutExpired"})
             => (i = 2 /\ j = 4 /\ trace[3][1] = "KILL"))
    /\ ((frame.op = "stop" /\ pc \notin {"idle", "dialog"}) ~> (pc \in {"idle", "dialog"}))

\* a Stop made both waits, both timed out, and it ended in the error box
C28_Witness ==
    /\ frame.op = "stop"
    /\ pc = "dialog"
    /\ Len(trace) = 4
    /\ trace[2][1] = "TimeoutExpired"
    /\ trace[4][1] = "TimeoutExpired"
    /\ os[frame.pid].st = "alive"

\* C29: no removal ever acts on an absent key: from its check to its del a
\* Stop in progress still finds the entry it looked up (no reconciliation
\* pass has removed and reported it in between), so the del raises no
\* KeyError and the removal of the entry is reported by one of them only.
C29_RemovalNeverMeetsAbsentKey ==
    /\ \A i \in DOMAIN trace : trace[i][1] # "KeyError"
    /\ (frame.op = "stop" /\ pc \in {"terminate", "wait5", "kill", "wait2", "del"})
          => /\ frame.name \in DOMAIN running_instances
             /\ running_instances[frame.name] = frame.pid

\* a Stop that failed is still showing its error box when a reconciliation
\* pass removes the entry of the same instance
C29_Witness ==
    /\ frame.op = "stop"
    /\ pc = "dialog"
    /\ Len(trace) = 4
    /\ trace[4][1] = "TimeoutExpired"
    /\ frame.name \notin DOMAIN running_instances

\* C30: while a handler runs, the table is changed by that handler only and
\* never by a read_errors thread; between the spawn of a process and the
\* insertion of its entry the only change of the table is that insertion;
\* and wherever a reconciliation pass or a Stop can run, every live process
\* that Start spawned has its entry.
C30_TableAccessIsExclusive ==
    /\ [](pc # "insert" =>
            \A p \in Pids :
               (os[p].st = "alive" /\ os[p].owner \in Names)
               => /\ os[p].owner \in DOMAIN running_instances
                  /\ running_instances[os[p].owner] = p)
    /\ [][/\ (pc \notin {"idle", "dialog"} /\ running_instances' # running_instances)
             => (pc' # pc /\ readers' = readers)
          /\ readers' # readers /\ pc' = pc => running_instances' = running_instances
          /\ pc = "insert" =>
                \/ pc' = pc /\ running_instances' = running_instances
                \/ /\ pc' = "started"
                   /\ running_instances' =
                         MapPut(running_instances, frame.name, frame.pid)]_vars

\* a process has been spawned and not yet inserted, while another entry's
\* process is dead (a pass would remove it) and a read_errors thread runs
C30_Witness ==
    /\ pc = "insert"
    /\ os[frame.pid].st = "alive"
    /\ frame.name \notin DOMAIN running_instances
    /\ \E n \in DOMAIN running_instances : is_dead(running_instances[n])
    /\ readers # {}

(***************************************************************************)
(* Claims about the download coordinator, continued.                       *)
(***************************************************************************)
Percentages == SelectSeq(events, LAMBDA e : e.k = "progress")

\* C31: the percentages a download has emitted are non-decreasing and each
\* lies in 0..100, whatever the sizes of the chunks received; with no
\* content length reported (total_size = 0) none is emitted.
C31_PercentagesBoundedAndMonotone ==
    /\ \A i \in DOMAIN Percentages : Percentages[i].v \in 0..100
    /\ \A i, j \in DOMAIN Percentages :
          i < j => Percentages[i].v <= Percentages[j].v
    /\ total_size = 0 => Percentages = <<>>

\* the event e is the signal k carrying the text v
IsEvent(e, k, v) == e.k = k /\ e.v = v

\* C32: the events of one download are ordered: the 'started' status is
\* the first event, the finished (outcome) event is the last one, with no
\* progress or status event after it, and the 'completed' status comes
\* immediately before the success outcome.
C32_EventsAreOrdered ==
    /\ events # <<>> => IsEvent(events[1], "status", "start")
    /\ \A i \in DOMAIN events : events[i].k = "finished" => i = Len(events)
    /\ \A i \in DOMAIN events :
          IsEvent(events[i], "finished", "ok")
             => (i > 1 /\ IsEvent(events[i - 1], "status", "done"))
    /\ \A i \in DOMAIN events :
          IsEvent(events[i], "status", "done")
             => (i < Len(events) /\ IsEvent(events[i + 1], "finished", "ok"))

\* a download that reported progress has ended with the success outcome
C32_Witness ==
    /\ dl_pc = "done"
    /\ Outcome = "ok"
    /\ Percentages # <<>>
    /\ Len(events) >= 5

(***************************************************************************)
(* Claims about the archive installer, continued                           *)
(***************************************************************************)

Installed == lastInstall.archive # "none"

\* the version record of the tag last installed (NoPath: no record)
RecordOfLast ==
    IF lastInstall.tag \in DOMAIN config_versions
    THEN config_versions[lastInstall.tag] ELSE NoPath

\* C33: a disk-image install that attempted the mount has issued the detach
\* of the mount point, after the mount and as its last command, when it
\* returns: on success, and when the mount command failed, no bundle was
\* found, the copy failed or the bundle holds no executable.
C33_DetachFollowsEveryMount ==
    (Installed /\ lastInstall.archive \in DmgArchives)
        => /\ lastInstall.why \in {"ok", "unpackfail", "noapp", "copyfail", "noexe"}
              => lastInstall.cmds = <<"attach", "detach">>
           /\ lastInstall.why = "mkdirfail" => lastInstall.cmds = <<>>
           /\ lastInstall.ok <=> lastInstall.why = "ok"

\* a disk-image install whose mount command failed
C33_Witness ==
    /\ lastInstall.archive \in DmgArchives
    /\ lastInstall.why = "unpackfail"
    /\ ~ lastInstall.ok
    /\ lastInstall.cmds # <<>>

C35_CommitOnlyWithInstalledVersion ==
    lastAccept.op # "none"
        => /\ lastAccept.changed => lastAccept.accepted
           /\ lastAccept.accepted <=> lastAccept.why \in {"installed", "downloaded"}
           /\ lastAccept.accepted
                 => has_version_readonly(config_versions, fs, is_windows,
                                         lastAccept.version).found
           /\ lastAccept.why \in {"declined", "failed", "noinfo", "invalid"}
                 => ~ lastAccept.changed

\* an add committed after the download and install of its version
C35_Witness ==
    /\ lastAccept.op = "add"
    /\ lastAccept.why = "downloaded"
    /\ lastAccept.changed
    /\ Len(instance_list) >= 1
    /\ instance_list[Len(instance_list)]["chromium_version"] = lastAccept.version

(***************************************************************************)
(* Claims about persistence, continued                                     *)
(***************************************************************************)

\* a step of add_instance, edit_instance or delete_instance whose
\* save_config failed
SaveFailedStep ==
    \/ /\ lastAccept'.save = "failed"
       /\ (lastAccept' # lastAccept \/ instance_list' # instance_list)
    \/ /\ lastDelete'.save = "failed"
       /\ lastDelete' # lastDelete

\* what the operation of the step did to the registry is there after it
MutationKept ==
    /\ lastAccept'.op = "add" /\ lastAccept'.accepted
          => /\ Len(instance_list') = Len(instance_list) + 1
             /\ SubSeq(instance_list', 1, Len(instance_list)) = instance_list
             /\ instance_list'[Len(instance_list')]["chromium_version"] = lastAccept'.version
    /\ lastAccept'.op = "edit" /\ lastAccept'.accepted
          => /\ Len(instance_list') = Len(instance_list)
             /\ \E row \in DOMAIN instance_list :
                   /\ instance_list'[row]["name"] = Name("x", 0)
                   /\ instance_list'[row]["chromium_version"] = lastAccept'.version
                   /\ \A i \in DOMAIN instance_list \ {row} :
                         instance_list'[i] = instance_list[i]
    /\ lastAccept'.op \in {"add", "edit"} /\ ~ lastAccept'.accepted
          => instance_list' = instance_list
    /\ lastDelete' # Idle.delete
          => /\ lastDelete'.removed = lastDelete'.selected
             /\ Len(instance_list') = Len(instance_list) - Cardinality(lastDelete'.removed)
    \* a version record the validation found stays
    /\ \A t \in DOMAIN config_versions :
          t \in DOMAIN config_versions' /\ config_versions'[t] = config_versions[t]
    /\ lastAccept'.op \in {"add", "edit"} /\ lastAccept'.accepted
          => /\ lastAccept'.version \in DOMAIN config_versions'
             /\ PathExists(fs, config_versions'[lastAccept'.version])

\* C36: when the save_config of a registry operation fails, the failure is
\* reported and the operation ends normally; the registry and the version
\* records hold what the operation made of them (nothing is rolled back),
\* the persisted document is the one from before, and running_instances
\* and the processes are untouched.
C36_FailedSaveKeepsMemory ==
    [][SaveFailedStep
          => /\ MutationKept
             /\ document' = document
             /\ running_instances' = running_instances
             /\ os' = os]_vars

\* an instance was added beside a started one while the save failed: the
\* registry holds it, the document does not
C36_Witness ==
    /\ lastAccept.op = "add"
    /\ lastAccept.accepted
    /\ lastAccept.save = "failed"
    /\ running_instances # EmptyMap
    /\ Len(instance_list) = 2
    /\ document.kind = "mapping"
    /\ document.instances # instance_list

(***************************************************************************)
(* Claims about the registry and the running_instances table               *)
(***************************************************************************)

\* the rows of the registry whose instance has the name of key k
RowsNamed(k) == {i \in DOMAIN instance_list : KeyOf(instance_list[i]["name"]) = k}

\* C38: every key of running_instances is the name of exactly one instance
\* of the registry.
C38_KeysNameOneInstance ==
    \A k \in DOMAIN running_instances : Cardinality(RowsNamed(k)) = 1

\* a delete_instance step
DeleteStep == lastDelete' # lastDelete /\ lastDelete' # Idle.delete

\* C40: a delete_instance with a selected instance that has an entry in
\* running_instances is rejected as a whole: no instance leaves the
\* registry, no user data directory is removed, and running_instances is
\* unchanged.
C40_DeleteOfRunningIsRejected ==
    [][(/\ DeleteStep
        /\ \E i \in lastDelete'.selected :
              KeyOf(instance_list[i]["name"]) \in DOMAIN running_instances)
          => /\ lastDelete'.rejected
             /\ instance_list' = instance_list
             /\ dirs' = dirs
             /\ running_instances' = running_instances
             /\ os' = os]_vars

\* a rejected delete of two instances, one of them running, with its user
\* data directory on disk
C40_Witness ==
    /\ lastDelete.rejected
    /\ Cardinality(lastDelete.selected) = 2
    /\ \E i \in lastDelete.selected :
          KeyOf(instance_list[i]["name"]) \notin DOMAIN running_instances
    /\ dirs # {}
    /\ instance_list = lastDelete.before

(***************************************************************************)
(* Claims about the process lifecycle manager, continued                   *)
(***************************************************************************)

\* the process Start spawned for instance n is gone: it is a zombie, or its
\* pid is free or belongs to a process spawned later
Died(n) ==
    /\ n \in DOMAIN running_instances
    /\ (os[running_instances[n]].st = "zombie" \/ os[running_instances[n]].owner # n)

\* C37: with the status timer firing for ever, an entry of running_instances
\* whose process has died is eventually removed (by a reconciliation pass or
\* by a Stop), and the instance can be started again.
C37_DeadEntryEventuallyRemoved ==
    \A n \in Names : Died(n) ~> (n \notin DOMAIN running_instances)

\* C39: every signal a Stop sends goes to the process that Start spawned
\* for the instance it stops.
C39_SignalsReachOnlyOwnProcess ==
    lastOp.op = "stop"
        => \A i \in DOMAIN lastOp.sigs : lastOp.sigs[i].owner = lastOp.name

=============================================================================
